---- MODULE Spec2Model ----
(***************************************************************************)
(* Model of the Laburen Agent orchestration loop (frontend/src/lib/agent.ts) *)
(* together with the session store, the tool registry and the chat route.   *)
(*                                                                           *)
(* One turn of runAgent is a sequence of atomic steps, one per await of the  *)
(* source (getSession, saveSession, tool execute, openrouterChat, delay)     *)
(* followed by the synchronous code that runs until the next await.          *)
(* Strings of the source with accents are written in ASCII here, one        *)
(* character for one character, so that lengths are those of the source.     *)
(***************************************************************************)
EXTENDS Integers, Sequences, FiniteSets, TLC

(***************************************************************************)
(* Bounds of the model                                                      *)
(***************************************************************************)
\* Concurrent requests (POST handlers) the model can hold.
Procs == {1, 2}
\* Rows of invited_user; 0 stands for null (no authenticated user).
Users == {1, 2}
\* Failures the environment injects in one run: a tool exception, a store
\* failure, a provider failure or a completion that does not parse.
MaxFaults == 2

(***************************************************************************)
(* Program constants                                                        *)
(***************************************************************************)
\* chunkResponse: buf.length >= 18
ChunkThreshold == 18
\* clampHistory(history, max = 120)
HistoryMax == 120
\* Math.min(10, ...) in maxIters, in halves of an iteration (10 = 20/2)
HardCapHalves == 20
\* Math.max(1, ...) in maxIters, in halves
FloorHalves == 2
\* process.env.MAX_TOOL_ITERATIONS ?? "4", in halves
DefaultHalves == 8

Null == [null |-> TRUE]

Last(s) == s[Len(s)]

(***************************************************************************)
(* Texts.  A text is the sequence of pieces text.split(/(\s+)/) yields:     *)
(* words and runs of white space; Join gives the string back.               *)
(***************************************************************************)
RECURSIVE Join(_)
Join(pieces) ==
    IF pieces = <<>> THEN "" ELSE Head(pieces) \o Join(Tail(pieces))

\* The loop without "if (buf) chunks.push(buf)": the rest is not streamed.
RECURSIVE chunkLoop_DropRest(_, _, _)
chunkLoop_DropRest(words, buf, chunks) ==
    IF words = <<>>
    THEN chunks
    ELSE LET b == buf \o Head(words)
         IN  IF Len(b) >= ChunkThreshold
             THEN chunkLoop_DropRest(Tail(words), "", Append(chunks, b))
             ELSE chunkLoop_DropRest(Tail(words), b, chunks)

RECURSIVE chunkLoop(_, _, _)
chunkLoop(words, buf, chunks) ==
    IF words = <<>>
    THEN IF buf # "" THEN Append(chunks, buf) ELSE chunks
    ELSE LET b == buf \o Head(words)
         IN  IF Len(b) >= ChunkThreshold
             THEN chunkLoop(Tail(words), "", Append(chunks, b))
             ELSE chunkLoop(Tail(words), b, chunks)

\* chunkResponse(text): the chunks streamed for a text.
chunkResponse(text) ==
    LET chunks == chunkLoop(text, "", <<>>)
    IN  IF Len(chunks) > 0 THEN chunks ELSE <<Join(text)>>

(***************************************************************************)
(* Tool registry (tools.ts)                                                 *)
(***************************************************************************)
TOOL_NAMES ==
    {"verify_passcode", "create_lead", "record_note", "list_notes",
     "delete_note", "list_leads", "schedule_followup", "list_followups",
     "complete_followup", "search_docs"}

\* Tools whose execute starts with: if (!ctx.session.authenticatedUser)
\*   return { success: false, message: "No autenticado" }
AuthTools ==
    {"create_lead", "record_note", "list_notes", "delete_note",
     "schedule_followup", "list_followups", "complete_followup"}

\* Tools whose schema has only optional fields: schema.parse({}) succeeds.
OptionalOnlyTools == {"list_notes", "list_leads", "list_followups"}

\* Tools that report "not found" when no row of the caller matches the id.
RowTools == {"delete_note", "complete_followup"}

\* A raw tool input.  absent: undefined (the plan gave no input); valid: the
\* payload satisfies the tool's zod schema; arg: what the payload designates
\* (verify_passcode: the invited_user row the name and passcode match, 0 for
\* none; other tools: a row id or a limit).
Input(valid, arg) == [absent |-> FALSE, valid |-> valid, arg |-> arg]
AbsentInput == [absent |-> TRUE, valid |-> FALSE, arg |-> 0]
NoMatch == [absent |-> TRUE, valid |-> FALSE, arg |-> -1]

\* A schema that accepts every input.
schemaOk_Lenient(name, raw) == TRUE

\* def.schema.parse(rawInput ?? {}) succeeds.
schemaOk(name, raw) ==
    IF raw.absent THEN name \in OptionalOnlyTools ELSE raw.valid

\* The value def.schema.parse returns.
schemaParse(name, raw) ==
    IF raw.absent THEN Input(TRUE, 0) ELSE raw

UserName(u) == IF u = 1 THEN "Ana" ELSE "Beto"

FallbackAuthText ==
    <<"Hubo", " ", "un", " ", "problema", " ", "al", " ", "interpretar",
      " ", "la", " ", "respuesta", " ", "del", " ", "asistente.", " ",
      "Podes", " ", "intentar", " ", "de", " ", "nuevo.">>
FallbackUnauthText ==
    <<"Acceso", " ", "por", " ", "invitacion", " ", "con", " ",
      "passcode.", " ", "?Queres", " ", "registrar", " ", "un", " ",
      "lead,", " ", "una", " ", "nota", " ", "o", " ", "buscar", " ", "en",
      " ", "la", " ", "documentacion?">>
MsgInvalidCreds ==
    <<"Nombre", " ", "o", " ", "codigo", " ", "invalido">>
MsgNoAuth ==
    <<"No", " ", "autenticado">>
MsgNoteNotFound ==
    <<"No", " ", "se", " ", "encontro", " ", "una", " ", "nota", " ",
      "con", " ", "ese", " ", "ID">>
MsgFollowUpNotFound ==
    <<"No", " ", "se", " ", "encontro", " ", "un", " ", "follow-up", " ",
      "con", " ", "ese", " ", "ID">>
VerifiedTail ==
    <<" ", "?Queres", " ", "registrar", " ", "un", " ", "lead,", " ",
      "una", " ", "nota,", " ", "un", " ", "follow-up", " ", "o", " ",
      "buscar", " ", "en", " ", "la", " ", "documentacion?">>
EmptyNotesText ==
    <<"No", " ", "encontre", " ", "notas", " ", "registradas", " ",
      "todavia.", " ", "?Agendamos", " ", "una", " ", "nueva?">>
EmptyLeadsText ==
    <<"No", " ", "hay", " ", "leads", " ", "registrados", " ", "todavia.",
      " ", "?Queres", " ", "crear", " ", "uno", " ", "nuevo?">>
EmptyFollowUpsText ==
    <<"No", " ", "hay", " ", "follow-ups", " ", "en", " ", "ese", " ",
      "estado", " ", "por", " ", "ahora.", " ", "Podemos", " ", "agendar",
      " ", "uno", " ", "nuevo", " ", "si", " ", "queres.">>
NotesListText(id) ==
    <<"Estas", " ", "son", " ", "tus", " ", "ultimas", " ", "notas", " ",
      "(1):", "\n", "*", " ", "[#" \o ToString(id) \o "]", " ", "nota">>
LeadsListText(id) ==
    <<"Ultimos", " ", "leads", " ", "(1):", "\n", "*", " ", "[ID", " ",
      ToString(id) \o "]", " ", "Ana">>
FollowUpsListText(id) ==
    <<"Resumen", " ", "de", " ", "follow-ups", " ", "(1):", "\n", "*", " ",
      "[ID", " ", ToString(id) \o "]", " ", "Llamar", " ", "(pendiente,", " ", "vence",
      " ", "sin", " ", "fecha)">>
NoteSavedText(id) ==
    <<"Nota", " ", "guardada", " ", "(ID", " ", ToString(id) \o ").",
      " ", "Detalle:",
      " ", "\"nota\"", " ", "?Algo", " ", "mas?">>
LeadCreatedText(id) ==
    <<"Lead", " ", "creado:", " ", "Ana", " ", "<ana@x.com>", " ", "(ID",
      " ", ToString(id) \o ").">>
NoteDeletedText(id) ==
    <<"Nota", " ", ToString(id), " ", "eliminada.", " ", "Contenido:", " ",
      "\"nota\".", " ", "?Te", " ", "ayudo", " ", "con", " ", "algo", " ",
      "mas?">>
FollowUpScheduledText(id) ==
    <<"Follow-up", " ", "agendado", " ", "(ID", " ", ToString(id) \o "):", " ",
      "\"Llamar\"", " ", "con", " ", "vencimiento", " ", "sin", " ",
      "fecha", " ", "definida.">>
FollowUpCompletedText(id) ==
    <<"Follow-up", " ", ToString(id), " ", "marcado", " ", "como", " ",
      "completado.">>
DocsNoneText ==
    <<"No", " ", "encontre", " ", "material", " ", "relacionado", " ",
      "en", " ", "la", " ", "documentacion", " ", "cargada.", " ", "Si",
      " ", "tenes", " ", "mas", " ", "contexto,", " ", "compartilo", " ",
      "y", " ", "vuelvo", " ", "a", " ", "buscar.">>
DocsFoundText ==
    <<"Encontre", " ", "1", " ", "fragmento", " ", "relevantes.", " ",
      "Consulta:", " ", "\"q\"", " ", "?Queres", " ", "que", " ",
      "elabore", " ", "una", " ", "respuesta", " ", "con", " ", "ellos?">>

LLMShortText == <<"Hola">>
LLMLongText ==
    <<"Puedo", " ", "ayudarte", " ", "con", " ", "leads", " ", "y", " ",
      "notas.">>

Result(success, message, user, rows, id) ==
    [success |-> success, message |-> message, user |-> user, rows |-> rows,
     id |-> id]

\* The tables the tools read and write: note(id, user_id), follow_up(id,
\* user_id, status), the number of rows of lead, and the last value of the
\* id sequences of note and follow_up.
NoteRow(id, user) == [id |-> id, user_id |-> user]
FollowUpRow_Pending(id, user, status) ==
    [id |-> id, user_id |-> user, status |-> "pending"]
FollowUpRow(id, user, status) ==
    [id |-> id, user_id |-> user, status |-> status]
EmptyTables ==
    [note |-> {}, follow_up |-> {}, lead |-> 0, noteSeq |-> 0,
     followSeq |-> 0]
SeededTables ==
    [note |-> {NoteRow(1, 1), NoteRow(2, 2)},
     follow_up |-> {FollowUpRow(1, 1, "pending"),
                    FollowUpRow(2, 2, "pending")},
     lead |-> 1, noteSeq |-> 2, followSeq |-> 2]

\* The largest id of a non-empty set of rows.
maxId(rows) == CHOOSE i \in {r.id : r \in rows} : \A r \in rows : r.id <= i

\* delete_note and complete_followup with `WHERE id = $1` alone: the row is
\* found whoever owns it.
executeResults_AnyOwner(name, input, sess, t) ==
    CASE name = "delete_note" ->
            {[result |-> Result(TRUE, <<"Nota", " ", "eliminada">>, 0, 1,
                                input.arg),
              tables |-> [t EXCEPT !.note =
                            {r \in @ : r.id # input.arg}]]}
      [] name = "complete_followup" ->
            {[result |-> Result(TRUE, <<"Follow-up", " ", "completado">>, 0,
                                1, input.arg),
              tables |-> [t EXCEPT !.follow_up =
                            {IF r.id = input.arg
                             THEN [r EXCEPT !.status = "completed"]
                             ELSE r : r \in @}]]}
      [] OTHER -> {[result |-> Result(TRUE, <<"ok">>, 0, 0, 0), tables |-> t]}

\* What execute may do without throwing, for a validated input, the session
\* of the turn and the tables t: the result it returns and the tables it
\* leaves.  Each tool issues at most one SQL statement.
executeResults(name, input, sess, t) ==
    LET u == sess.auth
        same(result) == {[result |-> result, tables |-> t]}
    IN
    IF name \in AuthTools /\ u = 0
    THEN same(Result(FALSE, MsgNoAuth, 0, 0, 0))
    ELSE CASE name = "verify_passcode" ->
                IF input.arg \in Users
                THEN same(Result(TRUE, <<"Usuario", " ", "verificado:", " ",
                                   UserName(input.arg)>>, input.arg, 0, 0))
                ELSE same(Result(FALSE, MsgInvalidCreds, 0, 0, 0))
           [] name = "create_lead" ->
                {[result |-> Result(TRUE, <<"Lead", " ", "registrado">>, 0,
                                    1, t.lead + 1),
                  tables |-> [t EXCEPT !.lead = @ + 1]]}
           [] name = "record_note" ->
                {[result |-> Result(TRUE, <<"Nota", " ", "guardada">>, 0, 1,
                                    t.noteSeq + 1),
                  tables |-> [t EXCEPT
                     !.noteSeq = @ + 1,
                     !.note = @ \cup {NoteRow(t.noteSeq + 1, u)}]]}
           [] name = "list_notes" ->
                LET mine == {r \in t.note : r.user_id = u}
                IN  same(Result(TRUE, <<"rows">>, 0, Cardinality(mine),
                                IF mine = {} THEN 0 ELSE maxId(mine)))
           [] name = "delete_note" ->
                LET hit == {r \in t.note :
                                r.id = input.arg /\ r.user_id = u}
                IN  IF hit = {}
                    THEN same(Result(FALSE, MsgNoteNotFound, 0, 0, 0))
                    ELSE {[result |-> Result(TRUE,
                                <<"Nota", " ", ToString(input.arg), " ",
                                  "eliminada">>, 0, 1, input.arg),
                           tables |-> [t EXCEPT !.note = @ \ hit]]}
           [] name = "list_leads" ->
                same(Result(TRUE, <<"rows">>, 0, t.lead, t.lead))
           [] name = "schedule_followup" ->
                {[result |-> Result(TRUE, <<"Follow-up", " ", "agendado">>,
                                    0, 1, t.followSeq + 1),
                  tables |-> [t EXCEPT
                     !.followSeq = @ + 1,
                     !.follow_up = @ \cup
                        {FollowUpRow(t.followSeq + 1, u, "pending")}]]}
           [] name = "list_followups" ->
                LET mine == {r \in t.follow_up :
                                r.user_id = u /\ r.status = "pending"}
                IN  same(Result(TRUE, <<"rows">>, 0, Cardinality(mine),
                                IF mine = {} THEN 0 ELSE maxId(mine)))
           [] name = "complete_followup" ->
                LET hit == {r \in t.follow_up :
                                r.id = input.arg /\ r.user_id = u}
                IN  IF hit = {}
                    THEN same(Result(FALSE, MsgFollowUpNotFound, 0, 0, 0))
                    ELSE {[result |-> Result(TRUE,
                                <<"Follow-up", " ", ToString(input.arg), " ",
                                  "completado">>, 0, 1, input.arg),
                           tables |-> [t EXCEPT !.follow_up = (@ \ hit) \cup
                                {FollowUpRow(input.arg, u, "completed")}]]}
           [] OTHER ->
                {[result |-> Result(TRUE, <<"docs">>, 0, n, 0), tables |-> t]
                    : n \in {0, 1}}

\* Every execute issues a request that may fail, the user check included.
executeCanThrow_Always(name, sess) == TRUE

\* execute issues a database or provider request (which may fail).
executeCanThrow(name, sess) == ~(name \in AuthTools /\ sess.auth = 0)

\* The replies without the empty-state branches of the list tools.
buildToolSuccessMessage_NoEmptyState(name, result) ==
    CASE name = "list_notes" -> NotesListText(result.id)
      [] name = "list_leads" -> LeadsListText(result.id)
      [] name = "list_followups" -> FollowUpsListText(result.id)
      [] OTHER -> result.message

\* buildToolSuccessMessage(outcome): the reply for a successful outcome.
buildToolSuccessMessage(name, result) ==
    CASE name = "verify_passcode" ->
            <<"Usuario", " ", "verificado:", " ",
              UserName(result.user) \o ".">> \o VerifiedTail
      [] name = "record_note" -> NoteSavedText(result.id)
      [] name = "create_lead" -> LeadCreatedText(result.id)
      [] name = "search_docs" ->
            IF result.rows = 0 THEN DocsNoneText ELSE DocsFoundText
      [] name = "list_notes" ->
            IF result.rows = 0 THEN EmptyNotesText ELSE NotesListText(result.id)
      [] name = "delete_note" -> NoteDeletedText(result.id)
      [] name = "list_leads" ->
            IF result.rows = 0 THEN EmptyLeadsText ELSE LeadsListText(result.id)
      [] name = "schedule_followup" -> FollowUpScheduledText(result.id)
      [] name = "list_followups" ->
            IF result.rows = 0 THEN EmptyFollowUpsText ELSE FollowUpsListText(result.id)
      [] name = "complete_followup" -> FollowUpCompletedText(result.id)
      [] OTHER -> result.message

\* respondWithToolError: outcome.result.message ?? "No se pudo ejecutar ..."
toolErrorMessage(name, result) == result.message


(***************************************************************************)
(* Plans (agent.ts: PlanSchema, parsePlan, fallbackPlan)                    *)
(***************************************************************************)
\* What the provider returns as completion text: a payload and the form it
\* is written in.  "json": the text is the JSON of the payload; "wrapped": a
\* sentence, then the JSON; "repairable": JSON with a trailing comma;
\* "garbage": no JSON at all.
Payload(action, tool, final_response) ==
    [null |-> FALSE, thought |-> "pensamiento del modelo", action |-> action,
     tool |-> tool, final_response |-> final_response]
ToolRef(name, input) == [null |-> FALSE, name |-> name, input |-> input]
Text(pieces) == [null |-> FALSE, text |-> pieces]
Content(form, payload) == [form |-> form, payload |-> payload]

\* A schema whose tool branch does not look at final_response.
PlanSchema_Lenient(p) ==
    \/ /\ p.action = "tool"
       /\ ~p.tool.null
       /\ p.tool.name \in TOOL_NAMES
    \/ /\ p.action = "respond"
       /\ ~p.final_response.null
       /\ Len(Join(p.final_response.text)) >= 1
       /\ p.tool.null

\* PlanSchema.parse accepts the payload.
PlanSchema(p) ==
    \/ /\ p.action = "tool"
       /\ ~p.tool.null
       /\ p.tool.name \in TOOL_NAMES
       /\ p.final_response.null
    \/ /\ p.action = "respond"
       /\ ~p.final_response.null
       /\ Len(Join(p.final_response.text)) >= 1
       /\ p.tool.null

\* tryParse(s) for s the raw text (slice FALSE), or its first-{ to last-}
\* slice (slice TRUE): JSON.parse, then PlanSchema.parse.
tryParse(c, slice) ==
    IF /\ c.form = "json" \/ (slice /\ c.form = "wrapped")
       /\ PlanSchema(c.payload)
    THEN c.payload
    ELSE Null

\* tryParse(jsonrepair(raw))
tryRepair(c) ==
    IF c.form \in {"json", "repairable"} /\ PlanSchema(c.payload)
    THEN c.payload
    ELSE Null

parsePlan(c) ==
    IF ~tryParse(c, FALSE).null THEN tryParse(c, FALSE)
    ELSE IF ~tryParse(c, TRUE).null
         THEN tryParse(c, TRUE)
         ELSE tryRepair(c)

fallbackPlan(reason, authenticated) ==
    [null |-> FALSE,
     thought |-> "Fallback: " \o reason,
     action |-> "respond",
     tool |-> Null,
     final_response |->
        Text(IF authenticated THEN FallbackAuthText ELSE FallbackUnauthText)]

(***************************************************************************)
(* MAX_TOOL_ITERATIONS (agent.ts 877-882).  Numbers are counted in halves,  *)
(* so that a fractional setting such as "2.5" is the value 5.               *)
(***************************************************************************)
EnvUnset == [kind |-> "unset", halves |-> 0]
EnvText == [kind |-> "text", halves |-> 0]
EnvNum(h) == [kind |-> "num", halves |-> h]
NaN == [nan |-> TRUE, halves |-> 0]
Num(h) == [nan |-> FALSE, halves |-> h]

\* Number(process.env.MAX_TOOL_ITERATIONS ?? "4")
envNumber(e) ==
    CASE e.kind = "unset" -> Num(DefaultHalves)
      [] e.kind = "text" -> NaN
      [] OTHER -> Num(e.halves)

\* Math.max(a, x) and Math.min(a, x) for a number a: NaN if x is NaN.
mathMax(a, x) == IF x.nan THEN NaN ELSE Num(IF x.halves > a THEN x.halves ELSE a)
mathMin(a, x) == IF x.nan THEN NaN ELSE Num(IF x.halves < a THEN x.halves ELSE a)

maxIters(e) == mathMin(HardCapHalves, mathMax(FloorHalves, envNumber(e)))

\* The loop test i < maxIters.
loopTest(i, m) == ~m.nan /\ 2 * i < m.halves


(***************************************************************************)
(* State                                                                    *)
(***************************************************************************)
VARIABLES
    env,        \* process.env.MAX_TOOL_ITERATIONS
    db,         \* the row of table session for the conversation id
    faults,     \* failures injected so far
    pc,         \* where each request is
    msg,        \* the user message of each request
    llmTools,   \* the tool names the provider uses in its plans, per request
    session,    \* the in-memory session of each turn
    events,     \* the events each request has put on its stream, in order
    stage,      \* the fast path being tried (index in FastPathOrder)
    iter,       \* the loop index i of the LLM loop
    call,       \* invokeTool's arguments and locals
    outcome,    \* what invokeTool returned
    reply,      \* the text emitStreamingText is streaming
    pending,    \* its chunks not yet emitted
    llmCalls,   \* completion requests made in the turn
    saves,      \* saveSession calls that succeeded in the turn
    execs,      \* the tool executions of the turn: name and how each ended
    exc,        \* the message of the exception runAgent threw
    loaded,     \* what getSession loaded: history length and user
    llmLog,     \* what each completion request of the turn returned
    tables      \* the tables note, follow_up and lead

vars ==
    <<env, db, faults, pc, msg, llmTools, session, events, stage, iter, call,
      outcome, reply, pending, llmCalls, saves, execs, exc, loaded, llmLog,
      tables>>

\* The fast paths in the order runAgent tries them (agent.ts 726-872).
FastPathOrder ==
    <<"verify_passcode", "complete_followup", "schedule_followup",
      "create_lead", "record_note", "list_notes", "list_leads",
      "list_followups", "search_docs">>
FastTools == {FastPathOrder[k] : k \in 1..Len(FastPathOrder)}
FirstAuthStage == 2
SearchStage == 9

(***************************************************************************)
(* Session store (session-store.ts)                                         *)
(***************************************************************************)
Entry(role, kind, name, data) ==
    [role |-> role, kind |-> kind, name |-> name, data |-> data]

\* A clamp that keeps the oldest entries.
clampHistory_Head(history, max) ==
    IF Len(history) > max THEN SubSeq(history, 1, max) ELSE history

clampHistory(history, max) ==
    IF Len(history) > max
    THEN SubSeq(history, Len(history) - max + 1, Len(history))
    ELSE history

serialize(sess) ==
    [exists |-> TRUE, auth |-> sess.auth,
     history |-> clampHistory(sess.history, HistoryMax)]

\* The row getSession's statement leaves: INSERT ... ON CONFLICT DO NOTHING.
upsert(row) ==
    IF row.exists THEN row ELSE [exists |-> TRUE, auth |-> 0, history |-> <<>>]

\* The session object getSession builds from the row.
loadSession(row) == [auth |-> row.auth, history |-> row.history]

\* A variant that writes the history and leaves authenticated_user alone.
saveSession_HistoryOnly(row, sess) ==
    IF row.exists THEN [row EXCEPT !.history = serialize(sess).history]
    ELSE row

\* A save that adds the session's entries to the stored ones.
saveSession_Append(row, sess) ==
    IF row.exists
    THEN [row EXCEPT !.auth = serialize(sess).auth,
                     !.history = clampHistory(@ \o sess.history, HistoryMax)]
    ELSE row

\* A variant that writes authenticated_user and leaves the history alone.
saveSession_UserOnly(row, sess) ==
    IF row.exists THEN [row EXCEPT !.auth = serialize(sess).auth] ELSE row

\* A variant that never replaces a stored user by null.
saveSession_KeepUser(row, sess) ==
    IF row.exists
    THEN [row EXCEPT !.auth = IF serialize(sess).auth = 0 THEN @
                              ELSE serialize(sess).auth,
                     !.history = serialize(sess).history]
    ELSE row

\* UPDATE session SET authenticated_user = $2, history = $3 WHERE id = $1:
\* the other columns of the row stay as they are.
saveSession(row, sess) ==
    IF row.exists
    THEN [row EXCEPT !.auth = serialize(sess).auth,
                     !.history = serialize(sess).history]
    ELSE row

NoSession == [auth |-> 0, history |-> <<>>]
NoRow == [exists |-> FALSE, auth |-> 0, history |-> <<>>]

(***************************************************************************)
(* Events (agent.ts: AgentEvent)                                            *)
(***************************************************************************)
LimitMessage == "El agente alcanzo el limite de iteraciones sin responder."
StoreError == "store: connection terminated"
ProviderError == "openrouter 502: upstream payload"
ToolError == "tool: query failed"
\* The TypeError of `row!.id` for a null row.
NullRowError == "Cannot read properties of null (reading 'id')"

EvThought(id, text) == [event |-> "thought", id |-> id, text |-> text]
EvTool(id, name, input) ==
    [event |-> "tool", id |-> id, name |-> name, input |-> input]
EvToolResult(id, name, input, result, status, error) ==
    [event |-> "tool_result", id |-> id, name |-> name, input |-> input,
     result |-> result, status |-> status, error |-> error]
EvAssistantMessage(id) == [event |-> "assistant_message", id |-> id]
\* A token that does not carry its chunk.
EvToken_Blank(id, value) == [event |-> "token", id |-> id, value |-> ""]
\* A token that does not carry the id of its reply.
EvToken_Detached(id, value) == [event |-> "token", id |-> 0, value |-> value]
EvToken(id, value) == [event |-> "token", id |-> id, value |-> value]
EvAssistantDone(id) == [event |-> "assistant_done", id |-> id]
EvState(user) == [event |-> "state", authenticatedUser |-> user]
EvError(message) == [event |-> "error", message |-> message]

\* randomUUID(): an id no earlier event of the stream carries.
freshId(evs) == Len(evs) + 1

NoCall == [null |-> TRUE]
NoOutcome == [null |-> TRUE]


(***************************************************************************)
(* runAgent (agent.ts 378-963), one action per await                        *)
(***************************************************************************)
\* A failure may still be injected.
canFail == faults < MaxFaults

\* emitStreamingText up to its first await: assistant_message and the first
\* token are emitted, the other chunks wait for their delay.
emitStreamingText(self, evs, text) ==
    LET id == freshId(evs)
        chunks == chunkResponse(text)
    IN  /\ events' = [events EXCEPT ![self] =
                        evs \o <<EvAssistantMessage(id), EvToken(id, chunks[1])>>]
        /\ reply' = [reply EXCEPT ![self] = [id |-> id, text |-> text]]
        /\ pending' = [pending EXCEPT ![self] = Tail(chunks)]
        /\ pc' = [pc EXCEPT ![self] = "stream"]

\* runAgent throws: the exception leaves the turn.
throw(self, message) ==
    /\ pc' = [pc EXCEPT ![self] = "threw"]
    /\ exc' = [exc EXCEPT ![self] = message]

\* const session = await getSession(conversationId);
\* session.history.push({ role: "user", content: userMessage });
GetSession(self) ==
    /\ pc[self] = "start"
    /\ \/ /\ db.exists
          /\ session' = [session EXCEPT ![self] =
                [auth |-> db.auth,
                 history |-> Append(loadSession(db).history,
                                    Entry("user", "USER", "", msg[self]))]]
          /\ loaded' = [loaded EXCEPT ![self] =
                [len |-> Len(db.history), auth |-> db.auth]]
          /\ pc' = [pc EXCEPT ![self] = "save_user"]
          /\ UNCHANGED <<faults, exc>>
       \/ /\ ~db.exists
          /\ pc' = [pc EXCEPT ![self] = "get_insert"]
          /\ UNCHANGED <<faults, exc, session, loaded>>
       \/ /\ canFail
          /\ faults' = faults + 1
          /\ throw(self, StoreError)
          /\ UNCHANGED <<session, loaded>>
    /\ UNCHANGED <<env, db, msg, llmTools, events, stage, iter, call, outcome,
                   reply, pending, llmCalls, saves, execs, llmLog,
                   tables>>

\* The statement of getSession whose snapshot has no row for the id:
\* INSERT ... ON CONFLICT (id) DO NOTHING RETURNING inserts and returns the
\* new row; if another statement has committed the row since the snapshot
\* was taken, it inserts nothing and returns nothing, and the SELECT of the
\* same statement reads the snapshot, in which the row is absent: queryOne
\* gives null and `row!.id` throws (session-store.ts 67-77).
GetSessionInsert(self) ==
    /\ pc[self] = "get_insert"
    /\ IF ~db.exists
       THEN /\ db' = upsert(db)
            /\ session' = [session EXCEPT ![self] =
                  [auth |-> 0,
                   history |-> Append(loadSession(upsert(db)).history,
                                      Entry("user", "USER", "", msg[self]))]]
            /\ loaded' = [loaded EXCEPT ![self] = [len |-> 0, auth |-> 0]]
            /\ pc' = [pc EXCEPT ![self] = "save_user"]
            /\ UNCHANGED exc
       ELSE /\ throw(self, NullRowError)
            /\ UNCHANGED <<db, session, loaded>>
    /\ UNCHANGED <<env, faults, msg, llmTools, events, stage, iter, call,
                   outcome, reply, pending, llmCalls, saves, execs, llmLog,
                   tables>>

\* A variant that goes on to the fast paths without having saved the user
\* message.
SaveUserMessage_Unsaved(self) ==
    /\ pc[self] = "save_user"
    /\ pc' = [pc EXCEPT ![self] = "fast"]
    /\ stage' = [stage EXCEPT ![self] = 1]
    /\ UNCHANGED <<env, db, faults, msg, llmTools, session, events, iter,
                   call, outcome, reply, pending, llmCalls, saves, execs, exc,
                   loaded, llmLog,
                   tables>>

\* await saveSession(session);   (agent.ts 386)
SaveUserMessage(self) ==
    /\ pc[self] = "save_user"
    /\ \/ /\ db' = saveSession(db, session[self])
          /\ saves' = [saves EXCEPT ![self] = @ + 1]
          /\ pc' = [pc EXCEPT ![self] = "fast"]
          /\ stage' = [stage EXCEPT ![self] = 1]
          /\ UNCHANGED <<faults, exc>>
       \/ /\ canFail
          /\ faults' = faults + 1
          /\ throw(self, StoreError)
          /\ UNCHANGED <<db, saves, stage>>
    /\ UNCHANGED <<env, msg, llmTools, session, events, iter, call, outcome,
                   reply, pending, llmCalls, execs, loaded, llmLog,
                   tables>>

\* A variant in which the credential fast path never applies.
fastPathApplies_NoCredentials(self, k) ==
    /\ k # 1
    /\ ~msg[self][FastPathOrder[k]].absent

\* The fast path of a stage applies: its guard holds and its extractor
\* matched the message.
fastPathApplies(self, k) ==
    /\ k = 1 => session[self].auth = 0
    /\ ~msg[self][FastPathOrder[k]].absent

\* The stage after k, passing over the next stage although its extractor
\* matched.
nextStage_SkipMatched(self, k) ==
    IF k + 1 = FirstAuthStage /\ session[self].auth = 0
    THEN SearchStage
    ELSE IF k + 1 <= SearchStage /\ ~msg[self][FastPathOrder[k + 1]].absent
         THEN k + 2
         ELSE k + 1

\* The stage after k when the action and list fast paths are not guarded
\* by the session's user.
nextStage_Ungated(self, k) == k + 1

\* The stage tried after stage k declined or its tool returned no outcome.
nextStage(self, k) ==
    IF k + 1 = FirstAuthStage /\ session[self].auth = 0
    THEN SearchStage
    ELSE k + 1

\* One fast path of agent.ts 726-872: the extractor, then invokeTool.
FastPath(self) ==
    /\ pc[self] = "fast"
    /\ LET k == stage[self] IN
       IF k > Len(FastPathOrder)
       THEN /\ pc' = [pc EXCEPT ![self] = "loop"]
            /\ UNCHANGED <<stage, call>>
       ELSE IF fastPathApplies(self, k)
            THEN /\ call' = [call EXCEPT ![self] =
                        [null |-> FALSE, name |-> FastPathOrder[k],
                         input |-> msg[self][FastPathOrder[k]],
                         from |-> "fast", id |-> 0]]
                 /\ pc' = [pc EXCEPT ![self] = "invoke"]
                 /\ UNCHANGED stage
            ELSE /\ stage' = [stage EXCEPT ![self] = nextStage(self, k)]
                 /\ UNCHANGED <<pc, call>>
    /\ UNCHANGED <<env, db, faults, msg, llmTools, session, events, iter,
                   outcome, reply, pending, llmCalls, saves, execs, exc,
                   loaded, llmLog,
                   tables>>

\* invokeTool up to its first await (agent.ts 400-440).
InvokeTool(self) ==
    /\ pc[self] = "invoke"
    /\ LET c == call[self]
           evs == events[self]
       IN  IF c.name \notin TOOL_NAMES
           THEN /\ events' = [events EXCEPT ![self] =
                        Append(evs, EvError("Tool desconocida: " \o c.name))]
                /\ session' = [session EXCEPT ![self].history =
                        Append(@, Entry("assistant", "TOOL_ERROR", c.name, Null))]
                /\ pc' = [pc EXCEPT ![self] = "save_null"]
                /\ UNCHANGED call
           ELSE IF ~schemaOk(c.name, c.input)
           THEN /\ events' = [events EXCEPT ![self] =
                        Append(evs, EvError("Input invalido para " \o c.name))]
                /\ session' = [session EXCEPT ![self].history =
                        Append(@, Entry("assistant", "TOOL_INPUT_ERROR", c.name, Null))]
                /\ pc' = [pc EXCEPT ![self] = "save_null"]
                /\ UNCHANGED call
           ELSE /\ call' = [call EXCEPT ![self] =
                        [c EXCEPT !.input = schemaParse(c.name, c.input),
                                  !.id = freshId(evs)]]
                /\ events' = [events EXCEPT ![self] =
                        Append(evs, EvTool(freshId(evs), c.name,
                                           schemaParse(c.name, c.input)))]
                /\ pc' = [pc EXCEPT ![self] = "execute"]
                /\ UNCHANGED session
    /\ UNCHANGED <<env, db, faults, msg, llmTools, stage, iter, outcome,
                   reply, pending, llmCalls, saves, execs, exc, loaded, llmLog,
                   tables>>

\* The catch of invokeTool without its tool_result event.
catchToolError_Silent(self, evs, hist, message) ==
    /\ events' = events
    /\ session' = [session EXCEPT ![self].history =
            Append(hist, Entry("assistant", "TOOL_EXEC_ERROR",
                               call[self].name, message))]
    /\ pc' = [pc EXCEPT ![self] = "save_null"]

\* A catch that runs the tool again.
catchToolError_Retry(self, evs, hist, message) ==
    /\ events' = [events EXCEPT ![self] =
            Append(evs, EvToolResult(call[self].id, call[self].name,
                                     call[self].input, Null, "error", message))]
    /\ session' = [session EXCEPT ![self].history =
            Append(hist, Entry("assistant", "TOOL_EXEC_ERROR",
                               call[self].name, message))]
    /\ pc' = [pc EXCEPT ![self] = "execute"]

\* A catch that overwrites the last entry of the history.
catchToolError_Rewrite(self, evs, hist, message) ==
    /\ events' = [events EXCEPT ![self] =
            Append(evs, EvToolResult(call[self].id, call[self].name,
                                     call[self].input, Null, "error", message))]
    /\ session' = [session EXCEPT ![self].history =
            [hist EXCEPT ![Len(hist)] =
                Entry("assistant", "TOOL_EXEC_ERROR", call[self].name,
                      message)]]
    /\ pc' = [pc EXCEPT ![self] = "save_null"]

\* The catch of invokeTool (agent.ts 484-501), before its saveSession.
catchToolError(self, evs, hist, message) ==
    /\ events' = [events EXCEPT ![self] =
            Append(evs, EvToolResult(call[self].id, call[self].name,
                                     call[self].input, Null, "error", message))]
    /\ session' = [session EXCEPT ![self].history =
            Append(hist, Entry("assistant", "TOOL_EXEC_ERROR",
                               call[self].name, message))]
    /\ pc' = [pc EXCEPT ![self] = "save_null"]

\* const result = await def.execute(parsedInput, { session }), then the
\* code up to saveSession (agent.ts 444-481), or the catch.
Execute(self) ==
    /\ pc[self] = "execute"
    /\ LET c == call[self] IN
       \/ \E done \in executeResults(c.name, c.input, session[self], tables) :
            LET result == done.result
                status == IF result.success THEN "success" ELSE "error"
                setsUser == c.name = "verify_passcode" /\ status = "success"
                ev == EvToolResult(c.id, c.name, c.input, result, status,
                        IF status = "error" THEN Join(result.message) ELSE "")
            IN  /\ events' = [events EXCEPT ![self] =
                        IF setsUser
                        THEN @ \o <<ev, EvState(result.user)>>
                        ELSE Append(@, ev)]
                /\ session' = [session EXCEPT ![self] =
                        [auth |-> IF setsUser THEN result.user ELSE @.auth,
                         history |-> @.history \o
                            <<Entry("assistant", "TOOL_CALL", c.name, c.input),
                              Entry("assistant", "TOOL_RESULT", c.name, result)>>]]
                /\ outcome' = [outcome EXCEPT ![self] =
                        [null |-> FALSE, name |-> c.name, status |-> status,
                         parsedInput |-> c.input, result |-> result]]
                /\ execs' = [execs EXCEPT ![self] =
                        Append(@, [name |-> c.name, how |-> status])]
                /\ tables' = done.tables
                /\ pc' = [pc EXCEPT ![self] = "save_outcome"]
                /\ UNCHANGED faults
       \/ /\ canFail
          /\ executeCanThrow(c.name, session[self])
          /\ faults' = faults + 1
          /\ catchToolError(self, events[self], session[self].history, ToolError)
          /\ execs' = [execs EXCEPT ![self] =
                Append(@, [name |-> c.name, how |-> "threw"])]
          /\ UNCHANGED <<outcome, tables>>
    /\ UNCHANGED <<env, db, msg, llmTools, stage, iter, call, reply, pending,
                   llmCalls, saves, exc, loaded, llmLog>>

\* A variant in which a failure a fast path got from its tool is not
\* answered: the turn goes on to the LLM loop.
respondWithTool_FallThrough(self, o) ==
    IF o.status = "error" /\ call[self].from = "fast"
    THEN /\ pc' = [pc EXCEPT ![self] = "loop"]
         /\ UNCHANGED <<events, reply, pending>>
    ELSE emitStreamingText(self, events[self],
            buildToolSuccessMessage(o.name, o.result))

\* A tool failure in the LLM loop is not answered: the loop goes on.
respondWithTool_LoopOnError(self, o) ==
    IF o.status = "error" /\ call[self].from = "llm"
    THEN /\ pc' = [pc EXCEPT ![self] = "loop"]
         /\ UNCHANGED <<events, reply, pending>>
    ELSE emitStreamingText(self, events[self],
            buildToolSuccessMessage(o.name, o.result))

\* What runAgent does with the outcome invokeTool returned: stream the reply
\* of respondWithToolSuccess or respondWithToolError.
respondWithTool(self, o) ==
    emitStreamingText(self, events[self],
        IF o.status = "success"
        THEN buildToolSuccessMessage(o.name, o.result)
        ELSE toolErrorMessage(o.name, o.result))

\* await saveSession(session); return { name, status, parsedInput, result }
\* (agent.ts 482-483), then the caller's respondWithTool...; or the catch.
SaveOutcome(self) ==
    /\ pc[self] = "save_outcome"
    /\ \/ /\ db' = saveSession(db, session[self])
          /\ saves' = [saves EXCEPT ![self] = @ + 1]
          /\ respondWithTool(self, outcome[self])
          /\ UNCHANGED <<faults, session, outcome>>
       \/ /\ canFail
          /\ faults' = faults + 1
          /\ catchToolError(self, events[self], session[self].history, StoreError)
          /\ outcome' = [outcome EXCEPT ![self] = NoOutcome]
          /\ UNCHANGED <<db, saves, reply, pending>>
    /\ UNCHANGED <<env, msg, llmTools, stage, iter, call, llmCalls, execs,
                   exc, loaded, llmLog, tables>>

\* await saveSession(session); return null   (agent.ts 410, 431, 502), then
\* the caller: the next fast path, or `continue` in the LLM loop.
SaveNoOutcome(self) ==
    /\ pc[self] = "save_null"
    /\ \/ /\ db' = saveSession(db, session[self])
          /\ saves' = [saves EXCEPT ![self] = @ + 1]
          /\ IF call[self].from = "fast"
             THEN /\ stage' = [stage EXCEPT ![self] = nextStage(self, @)]
                  /\ pc' = [pc EXCEPT ![self] = "fast"]
                  /\ UNCHANGED iter
             ELSE /\ iter' = [iter EXCEPT ![self] = @ + 1]
                  /\ pc' = [pc EXCEPT ![self] = "loop"]
                  /\ UNCHANGED stage
          /\ call' = [call EXCEPT ![self] = NoCall]
          /\ UNCHANGED <<faults, exc>>
       \/ /\ canFail
          /\ faults' = faults + 1
          /\ throw(self, StoreError)
          /\ UNCHANGED <<db, saves, stage, iter, call>>
    /\ UNCHANGED <<env, msg, llmTools, session, events, outcome, reply,
                   pending, llmCalls, execs, loaded, llmLog,
                   tables>>


(***************************************************************************)
(* The LLM loop (agent.ts 874-963)                                          *)
(***************************************************************************)
\* Inputs a plan of the provider may carry for a tool.
LLMInputs(name) ==
    {AbsentInput, Input(FALSE, 0)} \cup
    (IF name = "verify_passcode"
     THEN {Input(TRUE, a) : a \in {0} \cup Users}
     ELSE {Input(TRUE, 1)})

\* Payloads PlanSchema accepts, for a provider that names the tools of S.
GoodPayloads(S) ==
    UNION {{Payload("tool", ToolRef(n, i), Null) : i \in LLMInputs(n)} : n \in S}
    \cup {Payload("respond", Null, Text(t)) : t \in {LLMShortText, LLMLongText}}

\* Payloads PlanSchema rejects: a tool name that is not in the registry, a
\* tool together with a final response, an empty final response.
BadPayloads ==
    {Payload("tool", ToolRef("send_email", Input(TRUE, 1)), Null),
     Payload("tool", ToolRef("record_note", Input(TRUE, 1)), Text(LLMShortText)),
     Payload("respond", ToolRef("record_note", Input(TRUE, 1)), Text(LLMShortText)),
     Payload("respond", Null, Text(<<>>))}

\* Completion texts the provider may return.
LLMContents(S) ==
    {Content(f, p) : f \in {"json", "wrapped", "repairable"},
                     p \in GoodPayloads(S) \cup BadPayloads}
    \cup {Content("garbage", Null)}

\* What a completion text is, for the record of the turn's completions.
contentKind(c) ==
    IF c.form # "garbage" /\ c.payload.action = "tool"
       /\ ~c.payload.tool.null /\ c.payload.tool.name \notin TOOL_NAMES
       /\ c.payload.final_response.null
    THEN "unknown_tool"
    ELSE IF parsePlan(c).null THEN "unparsed" ELSE c.payload.action

\* The code after a plan is settled (agent.ts 931-953): the thought event,
\* then invokeTool or the streamed final response.
actOnPlan(self, plan) ==
    LET evs == Append(events[self], EvThought(freshId(events[self]), plan.thought))
    IN  IF plan.action = "tool"
        THEN /\ events' = [events EXCEPT ![self] = evs]
             /\ call' = [call EXCEPT ![self] =
                    [null |-> FALSE, name |-> plan.tool.name,
                     input |-> plan.tool.input, from |-> "llm", id |-> 0]]
             /\ pc' = [pc EXCEPT ![self] = "invoke"]
             /\ UNCHANGED <<reply, pending>>
        ELSE /\ emitStreamingText(self, evs, plan.final_response.text)
             /\ UNCHANGED call

\* A variant that streams the fallback reply when the loop runs out.
LoopHead_Reply(self) ==
    /\ pc[self] = "loop"
    /\ IF loopTest(iter[self], maxIters(env))
       THEN /\ pc' = [pc EXCEPT ![self] = "llm"]
            /\ UNCHANGED <<events, reply, pending>>
       ELSE emitStreamingText(self, events[self], FallbackUnauthText)
    /\ UNCHANGED <<env, db, faults, msg, llmTools, session, stage, iter, call,
                   outcome, llmCalls, saves, execs, exc, loaded, llmLog,
                   tables>>

\* for (let i = 0; i < maxIters; i++) ... and the code after the loop
\* (agent.ts 877-882, 956-962).
LoopHead(self) ==
    /\ pc[self] = "loop"
    /\ IF loopTest(iter[self], maxIters(env))
       THEN /\ pc' = [pc EXCEPT ![self] = "llm"]
            /\ UNCHANGED events
       ELSE /\ events' = [events EXCEPT ![self] = Append(@, EvError(LimitMessage))]
            /\ pc' = [pc EXCEPT ![self] = "returned"]
    /\ UNCHANGED <<env, db, faults, msg, llmTools, session, stage, iter, call,
                   outcome, reply, pending, llmCalls, saves, execs, exc,
                   loaded, llmLog,
                   tables>>

\* content = await openrouterChat(...) in the try of agent.ts 887-909, then
\* parsePlan(content) and, if it parsed, the code that acts on the plan.
LlmFirst(self) ==
    /\ pc[self] = "llm"
    /\ llmCalls' = [llmCalls EXCEPT ![self] = @ + 1]
    /\ \/ /\ canFail
          /\ faults' = faults + 1
          /\ llmLog' = [llmLog EXCEPT ![self] = Append(@, "error")]
          /\ LET plan == fallbackPlan(ProviderError, session[self].auth # 0)
                 evs == Append(events[self],
                               EvThought(freshId(events[self]), plan.thought))
             IN  emitStreamingText(self, evs, plan.final_response.text)
          /\ UNCHANGED call
       \/ \E c \in LLMContents(llmTools[self]) :
            /\ llmLog' = [llmLog EXCEPT ![self] = Append(@, contentKind(c))]
            /\ IF parsePlan(c).null
               THEN /\ canFail
                    /\ faults' = faults + 1
                    /\ pc' = [pc EXCEPT ![self] = "retry"]
                    /\ UNCHANGED <<events, call, reply, pending>>
               ELSE /\ actOnPlan(self, parsePlan(c))
                    /\ UNCHANGED faults
    /\ UNCHANGED <<env, db, msg, llmTools, session, stage, iter, outcome,
                   saves, execs, exc, loaded,
                   tables>>

\* A variant that asks again whenever the retry does not parse.
LlmRetry_Again(self) ==
    /\ pc[self] = "retry"
    /\ llmCalls' = [llmCalls EXCEPT ![self] = @ + 1]
    /\ \E c \in LLMContents(llmTools[self]) :
         /\ llmLog' = [llmLog EXCEPT ![self] = Append(@, contentKind(c))]
         /\ IF parsePlan(c).null
            THEN /\ canFail
                 /\ faults' = faults + 1
                 /\ UNCHANGED <<pc, events, call, reply, pending>>
            ELSE /\ actOnPlan(self, parsePlan(c))
                 /\ UNCHANGED faults
    /\ UNCHANGED <<env, db, msg, llmTools, session, stage, iter, outcome,
                   saves, execs, exc, loaded,
                   tables>>

\* const retry = await openrouterChat(...) (agent.ts 914-921, outside any
\* try), then plan = parsePlan(retry) ?? fallbackPlan(...).
LlmRetry(self) ==
    /\ pc[self] = "retry"
    /\ llmCalls' = [llmCalls EXCEPT ![self] = @ + 1]
    /\ \/ /\ canFail
          /\ faults' = faults + 1
          /\ llmLog' = [llmLog EXCEPT ![self] = Append(@, "error")]
          /\ throw(self, ProviderError)
          /\ UNCHANGED <<events, call, reply, pending>>
       \/ \E c \in LLMContents(llmTools[self]) :
            /\ llmLog' = [llmLog EXCEPT ![self] = Append(@, contentKind(c))]
            /\ IF parsePlan(c).null
               THEN /\ canFail
                    /\ faults' = faults + 1
                    /\ actOnPlan(self,
                           fallbackPlan("Modelo devolvio JSON invalido",
                                        session[self].auth # 0))
                    /\ UNCHANGED exc
               ELSE /\ actOnPlan(self, parsePlan(c))
                    /\ UNCHANGED <<faults, exc>>
    /\ UNCHANGED <<env, db, msg, llmTools, session, stage, iter, outcome,
                   saves, execs, loaded,
                   tables>>

\* emitStreamingText after a delay(30): the next token, or assistant_done
\* and the caller's session.history.push of the reply.
Stream(self) ==
    /\ pc[self] = "stream"
    /\ IF pending[self] # <<>>
       THEN /\ events' = [events EXCEPT ![self] =
                    Append(@, EvToken(reply[self].id, Head(pending[self])))]
            /\ pending' = [pending EXCEPT ![self] = Tail(@)]
            /\ UNCHANGED <<session, pc>>
       ELSE /\ events' = [events EXCEPT ![self] =
                    Append(@, EvAssistantDone(reply[self].id))]
            /\ session' = [session EXCEPT ![self].history =
                    Append(@, Entry("assistant", "TEXT", "", reply[self].text))]
            /\ pc' = [pc EXCEPT ![self] = "save_reply"]
            /\ UNCHANGED pending
    /\ UNCHANGED <<env, db, faults, msg, llmTools, stage, iter, call, outcome,
                   reply, llmCalls, saves, execs, exc, loaded, llmLog,
                   tables>>

\* A variant without the return after the reply is saved: the loop goes on.
SaveReply_LoopOn(self) ==
    /\ pc[self] = "save_reply"
    /\ \/ /\ db' = saveSession(db, session[self])
          /\ saves' = [saves EXCEPT ![self] = @ + 1]
          /\ iter' = [iter EXCEPT ![self] = @ + 1]
          /\ pc' = [pc EXCEPT ![self] = "loop"]
          /\ UNCHANGED <<faults, exc>>
       \/ /\ canFail
          /\ faults' = faults + 1
          /\ throw(self, StoreError)
          /\ UNCHANGED <<db, saves, iter>>
    /\ UNCHANGED <<env, msg, llmTools, session, events, stage, call,
                   outcome, reply, pending, llmCalls, execs, loaded, llmLog,
                   tables>>

\* await saveSession(session); return   (after a streamed reply)
SaveReply(self) ==
    /\ pc[self] = "save_reply"
    /\ \/ /\ db' = saveSession(db, session[self])
          /\ saves' = [saves EXCEPT ![self] = @ + 1]
          /\ pc' = [pc EXCEPT ![self] = "returned"]
          /\ UNCHANGED <<faults, exc>>
       \/ /\ canFail
          /\ faults' = faults + 1
          /\ throw(self, StoreError)
          /\ UNCHANGED <<db, saves>>
    /\ UNCHANGED <<env, msg, llmTools, session, events, stage, iter, call,
                   outcome, reply, pending, llmCalls, execs, loaded, llmLog,
                   tables>>

(***************************************************************************)
(* The chat route (api/chat/route.ts): try { await runAgent(...) }          *)
(* catch (error) { emit("error", ...) } finally { controller.close() }      *)
(***************************************************************************)
POST(self) ==
    /\ pc[self] \in {"returned", "threw"}
    /\ events' = [events EXCEPT ![self] =
            IF pc[self] = "threw" THEN Append(@, EvError(exc[self])) ELSE @]
    /\ pc' = [pc EXCEPT ![self] =
            IF pc[self] = "threw" THEN "closed_error" ELSE "closed"]
    /\ UNCHANGED <<env, db, faults, msg, llmTools, session, stage, iter, call,
                   outcome, reply, pending, llmCalls, saves, execs, exc,
                   loaded, llmLog,
                   tables>>

(***************************************************************************)
(* Initial states                                                           *)
(***************************************************************************)
\* Inputs an extractor can produce for its tool.  The credential, note,
\* schedule and search extractors only build inputs their schema accepts;
\* "follow-up 0", an address z.string().email() rejects, or a limit above 50
\* give an input the schema rejects.
FastInputs(name) ==
    CASE name = "verify_passcode" -> {Input(TRUE, a) : a \in {0} \cup Users}
      [] name \in {"schedule_followup", "record_note", "search_docs"} ->
            {Input(TRUE, 1)}
      [] name \in {"complete_followup", "create_lead"} ->
            {Input(TRUE, 1), Input(FALSE, 0)}
      [] OTHER -> {Input(TRUE, 0), Input(FALSE, 0)}

\* A message is what each extractor makes of it.
NoIntent == [t \in FastTools |-> NoMatch]
OneIntent ==
    UNION {{[NoIntent EXCEPT ![t] = i] : i \in FastInputs(t)} : t \in FastTools}
TwoIntents ==
    UNION {UNION {{[m EXCEPT ![t] = i] : i \in FastInputs(t)} :
                    t \in {u \in FastTools : m[u].absent}} : m \in OneIntent}
Messages == {NoIntent} \cup OneIntent \cup TwoIntents

\* Rows the session table can hold for the conversation id when a request
\* arrives: none, or the row an earlier turn of an authenticated user left.
PriorHistory ==
    <<Entry("user", "USER", "", NoIntent),
      Entry("assistant", "TEXT", "", LLMShortText)>>
Rows == {NoRow, [exists |-> TRUE, auth |-> 1, history |-> PriorHistory]}

\* Settings of MAX_TOOL_ITERATIONS: unset, not a number ("abc"), and
\* numbers from -1 to 12 in halves.
EnvHalves == {-2, 1, 2, 5, 20, 24}
EnvValues == {EnvUnset, EnvText} \cup {EnvNum(h) : h \in EnvHalves}

\* The state of a request that has not been made / has just arrived.
initRequest(e, row, m, S) ==
    /\ env = e
    /\ db = row
    /\ faults = 0
    /\ pc = [p \in Procs |-> IF p = 1 THEN "start" ELSE "idle"]
    /\ msg = [p \in Procs |-> IF p = 1 THEN m ELSE NoIntent]
    /\ llmTools = [p \in Procs |-> IF p = 1 THEN S ELSE {}]
    /\ session = [p \in Procs |-> NoSession]
    /\ events = [p \in Procs |-> <<>>]
    /\ stage = [p \in Procs |-> 0]
    /\ iter = [p \in Procs |-> 0]
    /\ call = [p \in Procs |-> NoCall]
    /\ outcome = [p \in Procs |-> NoOutcome]
    /\ reply = [p \in Procs |-> [id |-> 0, text |-> <<>>]]
    /\ pending = [p \in Procs |-> <<>>]
    /\ llmCalls = [p \in Procs |-> 0]
    /\ saves = [p \in Procs |-> 0]
    /\ execs = [p \in Procs |-> <<>>]
    /\ exc = [p \in Procs |-> ""]
    /\ loaded = [p \in Procs |-> [len |-> 0, auth |-> 0]]
    /\ llmLog = [p \in Procs |-> <<>>]

\* The tables a request finds: empty, or with rows of both users.
InitTables == {EmptyTables, SeededTables}

\* One request.  Either any message, with a provider that answers without
\* naming a tool; or a message no extractor matches, with a provider that
\* names one tool, under a setting of two iterations; or the same with
\* record_note under every setting.
Init ==
    \/ \E m \in Messages, row \in Rows, t \in InitTables :
            initRequest(EnvUnset, row, m, {}) /\ tables = t
    \/ \E n \in TOOL_NAMES, row \in Rows, t \in InitTables :
            initRequest(EnvNum(3), row, NoIntent, {n}) /\ tables = t
    \/ \E e \in EnvValues :
            initRequest(e, NoRow, NoIntent, {"record_note"})
            /\ tables = SeededTables

turn(self) ==
    \/ GetSession(self)
    \/ GetSessionInsert(self)
    \/ SaveUserMessage(self)
    \/ FastPath(self)
    \/ InvokeTool(self)
    \/ Execute(self)
    \/ SaveOutcome(self)
    \/ SaveNoOutcome(self)
    \/ LoopHead(self)
    \/ LlmFirst(self)
    \/ LlmRetry(self)
    \/ Stream(self)
    \/ SaveReply(self)
    \/ POST(self)

Next == \E self \in Procs : turn(self)

Spec == Init /\ [][Next]_vars

(***************************************************************************)
(* Properties of a turn                                                     *)
(***************************************************************************)
active(p) == pc[p] # "idle"

HasEvent(p, kind) == \E k \in 1..Len(events[p]) : events[p][k].event = kind

LimitEmitted(p) ==
    \E k \in 1..Len(events[p]) :
        /\ events[p][k].event = "error"
        /\ events[p][k].message = LimitMessage

\* The fallback wording for the session of the turn.
fallbackText(p) ==
    fallbackPlan("", session[p].auth # 0).final_response.text

\* C1: every turn ends in a terminal outcome, which is a streamed reply or
\* the iteration-limit error event: a turn that can take no further step
\* has emitted assistant_done or the iteration-limit error.
C1_TurnReachesTerminalOutcome ==
    LET \* The turn has a terminal outcome: a streamed reply or the limit error.
        TerminalOutcome(p) == HasEvent(p, "assistant_done") \/ LimitEmitted(p)
    IN
    \A p \in Procs :
        (active(p) /\ ~ENABLED turn(p)) => TerminalOutcome(p)

\* C2: no failure of the provider, of a tool or of the session store leaves
\* runAgent as an exception: runAgent never throws.
C2_NoExceptionEscapes ==
    \A p \in Procs : pc[p] \notin {"threw", "closed_error"}

\* C3: the user message is appended to the history and saved before any tool
\* is executed, any completion is requested and any event is emitted by
\* runAgent in the turn.
C3_UserMessageSavedFirst ==
    LET \* The events runAgent itself emitted: the route appends its own error event
        \* after runAgent threw.
        runAgentEvents(p) ==
            IF pc[p] = "closed_error"
            THEN SubSeq(events[p], 1, Len(events[p]) - 1)
            ELSE events[p]
    IN
    \A p \in Procs :
        (Len(execs[p]) > 0 \/ llmCalls[p] > 0 \/ Len(runAgentEvents(p)) > 0)
        => /\ saves[p] >= 1
           /\ Len(db.history) > loaded[p].len
           /\ db.history[loaded[p].len + 1] =
                Entry("user", "USER", "", msg[p])

\* C3 happens: a tool ran, a completion was requested and events were
\* emitted in one turn.
C3_Witness ==
    \E p \in Procs :
        /\ Len(execs[p]) > 0
        /\ llmCalls[p] > 0
        /\ Len(events[p]) > 0
        /\ loaded[p].len > 0

\* C4: whatever the MAX_TOOL_ITERATIONS setting, the loop runs at least 1 and
\* at most 10 iterations, and at most 4 when the setting is unset.
C4_IterationBounds ==
    \A p \in Procs :
        /\ pc[p] \in {"llm", "retry"} =>
                /\ iter[p] + 1 <= 10
                /\ env = EnvUnset => iter[p] + 1 <= 4
        /\ LimitEmitted(p) => iter[p] >= 1 /\ iter[p] <= 10

\* C5: when the loop runs out, the iteration-limit error is the last event of
\* the turn and the turn has no assistant_message, token or assistant_done
\* event.
C5_LimitErrorIsLast ==
    LET \* runAgent returned without throwing.
        endedNormally(p) == pc[p] \in {"returned", "closed"}
        \* The loop of the turn ran out: runAgent returned after the loop's test
        \* failed.
        exhausted(p) ==
            /\ endedNormally(p)
            /\ stage[p] > Len(FastPathOrder)
            /\ ~loopTest(iter[p], maxIters(env))
    IN
    \A p \in Procs :
        exhausted(p) =>
            /\ events[p] # <<>>
            /\ Last(events[p]) = EvError(LimitMessage)
            /\ \A k \in 1..Len(events[p]) :
                  events[p][k].event \notin
                      {"assistant_message", "token", "assistant_done"}

\* C5 happens: a loop of ten iterations ran out and the stream was closed.
C5_Witness ==
    LET \* runAgent returned without throwing.
        endedNormally(p) == pc[p] \in {"returned", "closed"}
        \* The loop of the turn ran out: runAgent returned after the loop's test
        \* failed.
        exhausted(p) ==
            /\ endedNormally(p)
            /\ stage[p] > Len(FastPathOrder)
            /\ ~loopTest(iter[p], maxIters(env))
    IN
    \E p \in Procs : exhausted(p) /\ iter[p] = 10 /\ pc[p] = "closed"

\* C6: whatever the provider, the tools and the store do, a turn that has
\* ended has emitted assistant_done or the iteration-limit error.
C6_OnlyLimitEndsWithoutReply ==
    LET \* The turn has a terminal outcome: a streamed reply or the limit error.
        TerminalOutcome(p) == HasEvent(p, "assistant_done") \/ LimitEmitted(p)
        \* runAgent is over: it returned or threw, and the route may have closed.
        ended(p) == pc[p] \in {"returned", "threw", "closed", "closed_error"}
    IN
    \A p \in Procs : ended(p) => TerminalOutcome(p)

\* C7: with a limit of one iteration and a provider that always names a tool
\* that is not in the registry, the turn has no assistant_done event and
\* ends after exactly one iteration and one completion request with the
\* iteration-limit error.
C7_UnknownToolRunsOutOfIterations ==
    LET \* runAgent returned without throwing.
        endedNormally(p) == pc[p] \in {"returned", "closed"}
    IN
    \A p \in Procs :
        (/\ env = EnvNum(2)
         /\ llmLog[p] # <<>>
         /\ \A k \in 1..Len(llmLog[p]) : llmLog[p][k] = "unknown_tool")
        => /\ ~HasEvent(p, "assistant_done")
           /\ endedNormally(p) =>
                LimitEmitted(p) /\ iter[p] = 1 /\ llmCalls[p] = 1

C9_ProviderFailureFallback ==
    LET \* runAgent is over: it returned or threw, and the route may have closed.
        ended(p) == pc[p] \in {"returned", "threw", "closed", "closed_error"}
    IN
    \A p \in Procs :
        (ended(p) /\ \E k \in 1..Len(llmLog[p]) : llmLog[p][k] = "error")
        => /\ Last(llmLog[p]) = "error"
           /\ HasEvent(p, "assistant_done")
           /\ reply[p].text = fallbackText(p)
           /\ Last(session[p].history) =
                Entry("assistant", "TEXT", "", fallbackText(p))
           /\ call[p].null

\* C10: when the message matches the credential fast path and
\* verify_passcode succeeds, the events of the turn are tool, tool_result
\* (success), state, assistant_message, one or more token, assistant_done;
\* the session is saved with a user and no completion is requested.
C10_CredentialFastPathEvents ==
    LET \* runAgent returned without throwing.
        endedNormally(p) == pc[p] \in {"returned", "closed"}
        \* The turn is on a session that was not authenticated, its message carries
        \* credentials verify_passcode accepts and nothing failed.
        validCredentials(p) ==
            /\ pc[p] \notin {"idle", "start", "get_insert"}
            /\ loaded[p].auth = 0
            /\ ~msg[p]["verify_passcode"].absent
            /\ msg[p]["verify_passcode"].valid
            /\ msg[p]["verify_passcode"].arg \in Users
            /\ faults = 0
    IN
    \A p \in Procs :
        validCredentials(p) =>
            /\ llmCalls[p] = 0
            /\ pc[p] \notin {"loop", "llm", "retry", "threw", "closed_error"}
            /\ endedNormally(p) =>
                LET e == events[p]
                    n == Len(e)
                IN  /\ n >= 6
                    /\ e[1].event = "tool"
                    /\ e[1].name = "verify_passcode"
                    /\ e[2].event = "tool_result"
                    /\ e[2].status = "success"
                    /\ e[2].id = e[1].id
                    /\ e[3] = EvState(msg[p]["verify_passcode"].arg)
                    /\ e[4].event = "assistant_message"
                    /\ \A k \in 5..(n - 1) :
                          e[k].event = "token" /\ e[k].id = e[4].id
                    /\ e[n] = EvAssistantDone(e[4].id)
                    /\ db.auth = msg[p]["verify_passcode"].arg
                    /\ Len(execs[p]) = 1

\* C10 happens: the credential fast path replied in more than one token and
\* the stream was closed.
C10_Witness ==
    LET \* The turn is on a session that was not authenticated, its message carries
        \* credentials verify_passcode accepts and nothing failed.
        validCredentials(p) ==
            /\ pc[p] \notin {"idle", "start", "get_insert"}
            /\ loaded[p].auth = 0
            /\ ~msg[p]["verify_passcode"].absent
            /\ msg[p]["verify_passcode"].valid
            /\ msg[p]["verify_passcode"].arg \in Users
            /\ faults = 0
    IN
    \E p \in Procs :
        /\ validCredentials(p)
        /\ pc[p] = "closed"
        /\ Len(events[p]) > 6

\* C11 (as stated): when the credential fast path matched and
\* verify_passcode reported failure, the turn does not end at that step: it
\* goes on to the search_docs fast path and the LLM loop.
C11_RefusedCredentialsFallThrough ==
    LET \* runAgent returned without throwing.
        endedNormally(p) == pc[p] \in {"returned", "closed"}
        \* The credential fast path of the turn ran verify_passcode and the tool
        \* reported failure.
        credentialsRefused(p) ==
            /\ loaded[p].auth = 0
            /\ execs[p] # <<>>
            /\ execs[p][1] = [name |-> "verify_passcode", how |-> "error"]
            /\ events[p][1].event = "tool"
    IN
    \A p \in Procs :
        (credentialsRefused(p) /\ endedNormally(p)) =>
            stage[p] >= SearchStage

\* C11 (amended): when the credential fast path matched, verify_passcode
\* reported failure and invokeTool returned that outcome, the turn ends at
\* that step with the tool's message as
\* the streamed reply, and no other fast path and no completion request
\* runs; when the extractor does not match, the turn goes on to the
\* search_docs fast path.
C11_RefusedCredentialsEndTurn ==
    LET \* The steps of a turn after the credential fast path was passed.
        pastCredentialStep(p) ==
            /\ pc[p] \notin {"idle", "start", "get_insert", "save_user", "threw",
                            "closed_error"}
            /\ ~(pc[p] = "fast" /\ stage[p] = 1)
        \* The credential fast path of the turn ran verify_passcode and the tool
        \* reported failure.
        credentialsRefused(p) ==
            /\ loaded[p].auth = 0
            /\ execs[p] # <<>>
            /\ execs[p][1] = [name |-> "verify_passcode", how |-> "error"]
            /\ events[p][1].event = "tool"
    IN
    \A p \in Procs :
        /\ (/\ credentialsRefused(p)
            /\ ~outcome[p].null
            /\ outcome[p].name = "verify_passcode"
            /\ pc[p] # "save_outcome")
           => /\ pc[p] \in {"stream", "save_reply", "returned", "threw",
                            "closed", "closed_error"}
              /\ reply[p].text = MsgInvalidCreds
              /\ stage[p] = 1
              /\ llmCalls[p] = 0
              /\ Len(execs[p]) = 1
        /\ (/\ pastCredentialStep(p)
            /\ loaded[p].auth = 0
            /\ msg[p]["verify_passcode"].absent)
           => stage[p] >= SearchStage

\* C11 happens: refused credentials in a message that also asks for a
\* search, and the turn closed with the refusal as its reply.
C11_Witness ==
    LET \* The credential fast path of the turn ran verify_passcode and the tool
        \* reported failure.
        credentialsRefused(p) ==
            /\ loaded[p].auth = 0
            /\ execs[p] # <<>>
            /\ execs[p][1] = [name |-> "verify_passcode", how |-> "error"]
            /\ events[p][1].event = "tool"
    IN
    \E p \in Procs :
        /\ credentialsRefused(p)
        /\ ~msg[p]["search_docs"].absent
        /\ pc[p] = "closed"
        /\ reply[p].text = MsgInvalidCreds

\* C12: the session's user changes only through a verify_passcode call that
\* returned success; the change comes with a state event carrying the new
\* user, and until a saveSession has stored the new user no
\* assistant_message is emitted and no further tool or completion is called.
C12_AuthOnlyByVerifyPasscode ==
    LET \* The turn changed the user of its session.
        authChanged(p) == session[p].auth # loaded[p].auth
        \* The index of the last state event of the turn (0 if none).
        lastStateEvent(p) ==
            LET ks == {k \in 1..Len(events[p]) : events[p][k].event = "state"}
            IN  IF ks = {} THEN 0 ELSE CHOOSE k \in ks : \A j \in ks : j <= k
    IN
    \A p \in Procs :
        authChanged(p) =>
            /\ \E k \in 1..Len(execs[p]) :
                  execs[p][k] = [name |-> "verify_passcode", how |-> "success"]
            /\ lastStateEvent(p) > 0
            /\ events[p][lastStateEvent(p)] = EvState(session[p].auth)
            /\ events[p][lastStateEvent(p) - 1].event = "tool_result"
            /\ events[p][lastStateEvent(p) - 1].name = "verify_passcode"
            /\ events[p][lastStateEvent(p) - 1].status = "success"
            /\ db.auth # session[p].auth =>
                  /\ pc[p] \in {"save_outcome", "save_null", "threw",
                                "closed_error"}
                  /\ Last(execs[p]) =
                        [name |-> "verify_passcode", how |-> "success"]
                  /\ call[p].name = "verify_passcode"
                  /\ \A j \in (lastStateEvent(p) + 1)..Len(events[p]) :
                        events[p][j].event \in {"tool_result", "error"}

\* C12 happens: a plan of the provider called verify_passcode, the session
\* got its user and the stream was closed with the user stored.
C12_Witness ==
    LET \* The turn changed the user of its session.
        authChanged(p) == session[p].auth # loaded[p].auth
    IN
    \E p \in Procs :
        /\ authChanged(p)
        /\ llmCalls[p] > 0
        /\ pc[p] = "closed"
        /\ db.auth = session[p].auth

\* C13: once the stored user of a session is not null it is never set to
\* null and never replaced by another user: a turn that loaded a user
\* keeps it, in memory and in the store.
C13_IdentitySetOnce ==
    \A p \in Procs :
        loaded[p].auth # 0 =>
            /\ session[p].auth = loaded[p].auth
            /\ db.auth = loaded[p].auth

\* C14 (as stated): in a turn of an authenticated session in which some
\* fast path extractor matched, only the first matching fast path is
\* invoked and the turn ends after it: no later fast path is tried and no
\* completion is requested.
C14_FirstMatchEndsTurn ==
    LET \* The turn started on a session that already had its user.
        startedAuthenticated(p) == loaded[p].auth # 0 /\ active(p)
        \* The stages of the action, list and search fast paths whose extractor
        \* matched the message.
        matchedStages(p) ==
            {k \in FirstAuthStage..SearchStage : ~msg[p][FastPathOrder[k]].absent}
        firstMatchedStage(p) ==
            CHOOSE k \in matchedStages(p) : \A j \in matchedStages(p) : k <= j
    IN
    \A p \in Procs :
        (startedAuthenticated(p) /\ matchedStages(p) # {}) =>
            /\ stage[p] <= firstMatchedStage(p)
            /\ pc[p] \notin {"loop", "llm", "retry"}
            /\ llmCalls[p] = 0

\* C14 (amended): in a turn of an authenticated session the fast paths are
\* tried in the order complete_followup, schedule_followup, create_lead,
\* record_note, list_notes, list_leads, list_followups, search_docs; a
\* matching fast path whose invocation returned an outcome ends the turn
\* with that outcome's reply and without a completion request; a later
\* fast path or the LLM loop is reached only when every matching fast
\* path before it returned no outcome.
C14_FastPathOrderAndFallThrough ==
    LET \* The turn started on a session that already had its user.
        startedAuthenticated(p) == loaded[p].auth # 0 /\ active(p)
        \* invokeTool returned null for the tool during the turn: the history got a
        \* TOOL_INPUT_ERROR or TOOL_EXEC_ERROR entry for it.
        returnedNoOutcome(p, name) ==
            \E i \in 1..Len(session[p].history) :
                /\ i > loaded[p].len
                /\ session[p].history[i].kind \in {"TOOL_INPUT_ERROR", "TOOL_EXEC_ERROR"}
                /\ session[p].history[i].name = name
    IN
    LET order == <<"verify_passcode", "complete_followup",
                   "schedule_followup", "create_lead", "record_note",
                   "list_notes", "list_leads", "list_followups",
                   "search_docs">>
    IN  \A p \in Procs :
            startedAuthenticated(p) =>
                /\ (/\ ~call[p].null /\ call[p].from = "fast"
                    /\ pc[p] \in {"invoke", "execute"}) =>
                      /\ stage[p] \in FirstAuthStage..SearchStage
                      /\ call[p].name = order[stage[p]]
                      /\ ~msg[p][call[p].name].absent
                /\ \A k \in FirstAuthStage..SearchStage :
                      (/\ ~msg[p][order[k]].absent
                       /\ \/ stage[p] > k
                          \/ pc[p] \in {"loop", "llm", "retry"}
                          \/ llmCalls[p] > 0)
                      => returnedNoOutcome(p, order[k])
                /\ (/\ ~call[p].null /\ call[p].from = "fast"
                    /\ ~outcome[p].null /\ pc[p] # "save_outcome") =>
                      /\ pc[p] \in {"stream", "save_reply", "returned",
                                    "threw", "closed", "closed_error"}
                      /\ outcome[p].name = order[stage[p]]
                      /\ llmCalls[p] = 0
                      /\ reply[p].id # 0

\* C14 happens: two fast paths matched, the first returned no outcome and
\* the second answered the turn.
C14_Witness ==
    LET \* The turn started on a session that already had its user.
        startedAuthenticated(p) == loaded[p].auth # 0 /\ active(p)
        \* The stages of the action, list and search fast paths whose extractor
        \* matched the message.
        matchedStages(p) ==
            {k \in FirstAuthStage..SearchStage : ~msg[p][FastPathOrder[k]].absent}
        firstMatchedStage(p) ==
            CHOOSE k \in matchedStages(p) : \A j \in matchedStages(p) : k <= j
        \* invokeTool returned null for the tool during the turn: the history got a
        \* TOOL_INPUT_ERROR or TOOL_EXEC_ERROR entry for it.
        returnedNoOutcome(p, name) ==
            \E i \in 1..Len(session[p].history) :
                /\ i > loaded[p].len
                /\ session[p].history[i].kind \in {"TOOL_INPUT_ERROR", "TOOL_EXEC_ERROR"}
                /\ session[p].history[i].name = name
    IN
    \E p \in Procs :
        /\ startedAuthenticated(p)
        /\ matchedStages(p) # {}
        /\ stage[p] > firstMatchedStage(p)
        /\ returnedNoOutcome(p, FastPathOrder[firstMatchedStage(p)])
        /\ ~outcome[p].null
        /\ outcome[p].name = FastPathOrder[stage[p]]
        /\ llmCalls[p] = 0
        /\ pc[p] = "closed"

\* The tools of the list fast paths.
ListFastPaths == {"list_notes", "list_leads", "list_followups"}

\* The rows a list tool finds for the user u in the tables t.
listedRows(name, u, t) ==
    CASE name = "list_notes" -> {r \in t.note : r.user_id = u}
      [] name = "list_followups" ->
            {r \in t.follow_up : r.user_id = u /\ r.status = "pending"}
      [] OTHER -> 1..t.lead

\* The empty-state message of a list tool.
emptyStateText(name) ==
    CASE name = "list_notes" -> EmptyNotesText
      [] name = "list_followups" -> EmptyFollowUpsText
      [] OTHER -> EmptyLeadsText

\* C15: when a list fast path (notes, leads, follow-ups) of an
\* authenticated turn finds no rows, the tool's result is a success with an
\* empty list, and once invokeTool has returned the outcome the reply is
\* exactly the empty-state message of that tool and no completion has been
\* requested.
C15_EmptyListReply ==
    LET \* The turn started on a session that already had its user.
        startedAuthenticated(p) == loaded[p].auth # 0 /\ active(p)
        \* A list fast path of an authenticated turn ran its tool, and the tables
        \* hold no row for it.
        listedNothing(p) ==
            /\ startedAuthenticated(p)
            /\ ~call[p].null
            /\ call[p].from = "fast"
            /\ call[p].name \in ListFastPaths
            /\ pc[p] \notin {"invoke", "execute"}
            /\ execs[p] # <<>>
            /\ Last(execs[p]).name = call[p].name
            /\ Last(execs[p]).how # "threw"
            /\ listedRows(call[p].name, session[p].auth, tables) = {}
    IN
    \A p \in Procs :
        listedNothing(p) =>
            /\ Last(execs[p]).how = "success"
            /\ \E k \in 1..Len(events[p]) :
                  /\ events[p][k].event = "tool_result"
                  /\ events[p][k].name = call[p].name
                  /\ events[p][k].status = "success"
                  /\ events[p][k].result.success
                  /\ events[p][k].result.rows = 0
            /\ (~outcome[p].null /\ pc[p] # "save_outcome") =>
                  /\ outcome[p].status = "success"
                  /\ outcome[p].result.rows = 0
                  /\ reply[p].text = emptyStateText(call[p].name)
                  /\ llmCalls[p] = 0
                  /\ pc[p] \in {"stream", "save_reply", "returned", "threw",
                                "closed", "closed_error"}

\* C15 happens: the follow-up list fast path found nothing and the stream
\* was closed after the empty-state reply.
C15_Witness ==
    LET \* The turn started on a session that already had its user.
        startedAuthenticated(p) == loaded[p].auth # 0 /\ active(p)
        \* A list fast path of an authenticated turn ran its tool, and the tables
        \* hold no row for it.
        listedNothing(p) ==
            /\ startedAuthenticated(p)
            /\ ~call[p].null
            /\ call[p].from = "fast"
            /\ call[p].name \in ListFastPaths
            /\ pc[p] \notin {"invoke", "execute"}
            /\ execs[p] # <<>>
            /\ Last(execs[p]).name = call[p].name
            /\ Last(execs[p]).how # "threw"
            /\ listedRows(call[p].name, session[p].auth, tables) = {}
    IN
    \E p \in Procs :
        /\ listedNothing(p)
        /\ call[p].name = "list_followups"
        /\ ~outcome[p].null
        /\ reply[p].text = EmptyFollowUpsText
        /\ llmCalls[p] = 0
        /\ pc[p] = "closed"

\* The tools of the action and list fast paths, inside
\* `if (session.authenticatedUser)`.
GatedFastTools ==
    {FastPathOrder[k] : k \in FirstAuthStage..(SearchStage - 1)}

\* C16: a fast path invokes one of the seven action and list tools only in
\* a session that has a user; the credential fast path invokes
\* verify_passcode only in a session without a user; the search_docs fast
\* path is tried with or without a user: a turn whose message matched it
\* does not get past the fast paths without having invoked search_docs.
C16_FastPathsGatedByUser ==
    LET \* invokeTool is running for a fast path.
        fastCall(p) ==
            /\ ~call[p].null
            /\ call[p].from = "fast"
            /\ pc[p] \in {"invoke", "execute", "save_outcome", "save_null"}
        \* The turn has an entry for the tool in the history it added.
        invoked(p, name) ==
            \E i \in 1..Len(session[p].history) :
                /\ i > loaded[p].len
                /\ session[p].history[i].kind \in
                      {"TOOL_CALL", "TOOL_INPUT_ERROR", "TOOL_EXEC_ERROR"}
                /\ session[p].history[i].name = name
    IN
    \A p \in Procs :
        /\ fastCall(p) =>
              /\ call[p].name \in GatedFastTools => session[p].auth # 0
              /\ call[p].name = "verify_passcode" => loaded[p].auth = 0
              /\ (call[p].name = "verify_passcode"
                    /\ pc[p] \in {"invoke", "execute"}) => session[p].auth = 0
        /\ (/\ ~msg[p]["search_docs"].absent
            /\ \/ (pc[p] = "fast" /\ stage[p] > SearchStage)
               \/ pc[p] \in {"loop", "llm", "retry"}
               \/ llmCalls[p] > 0)
           => invoked(p, "search_docs")

\* C16 happens: in a session without a user the message asked for a note and
\* a search; no tool ran before the search_docs fast path was invoked.
C16_Witness ==
    LET \* invokeTool is running for a fast path.
        fastCall(p) ==
            /\ ~call[p].null
            /\ call[p].from = "fast"
            /\ pc[p] \in {"invoke", "execute", "save_outcome", "save_null"}
    IN
    \E p \in Procs :
        /\ session[p].auth = 0
        /\ ~msg[p]["record_note"].absent
        /\ fastCall(p)
        /\ call[p].name = "search_docs"
        /\ pc[p] = "execute"
        /\ execs[p] = <<>>

\* C17: in the LLM loop a tool that returns a structured failure
\* (success:false) ends the turn: its message is streamed as the reply and
\* no iteration, completion or tool call follows.  An input the schema
\* rejects gives no reply: invokeTool returns no outcome, the loop index
\* advances and, while iterations remain, another completion is requested.
C17_FailureEndsRejectionLoops ==
    [][
    LET \* invokeTool is running for a plan of the LLM loop.
        llmCall(p) == ~call[p].null /\ call[p].from = "llm"
        \* The input of the call does not satisfy the schema of its tool.
        rejectedInput(p) ==
            /\ call[p].name \in TOOL_NAMES
            /\ IF call[p].input.absent
               THEN call[p].name \notin {"list_notes", "list_leads", "list_followups"}
               ELSE ~call[p].input.valid
        \* invokeTool returned a structured failure to the LLM loop.
        failureReturned(p) ==
            /\ llmCall(p)
            /\ ~outcome[p].null
            /\ outcome[p].status = "error"
            /\ pc[p] # "save_outcome"
    IN
       \A p \in Procs :
        /\ (/\ pc[p] = "save_outcome" /\ llmCall(p)
            /\ outcome[p].status = "error"
            /\ saves'[p] > saves[p]) =>
              /\ pc'[p] = "stream"
              /\ reply'[p].text = outcome[p].result.message
              /\ reply'[p].id # 0
              /\ failureReturned(p)'
        /\ failureReturned(p) =>
              /\ failureReturned(p)'
              /\ pc[p] \in {"stream", "save_reply", "returned", "threw",
                            "closed", "closed_error"}
              /\ pc'[p] \notin {"loop", "llm", "retry", "invoke", "execute"}
              /\ iter'[p] = iter[p]
              /\ llmCalls'[p] = llmCalls[p]
              /\ execs'[p] = execs[p]
              /\ reply'[p] = reply[p]
        /\ (pc[p] = "invoke" /\ llmCall(p) /\ rejectedInput(p)) =>
              /\ pc'[p] = "save_null"
              /\ reply'[p] = reply[p]
              /\ outcome'[p] = outcome[p]
              /\ execs'[p] = execs[p]
              /\ Last(events'[p]).event = "error"
        /\ (pc[p] = "save_null" /\ llmCall(p) /\ saves'[p] > saves[p]) =>
              /\ pc'[p] = "loop"
              /\ iter'[p] = iter[p] + 1
              /\ reply'[p] = reply[p]
        /\ (pc[p] = "loop" /\ loopTest(iter[p], maxIters(env))
            /\ pc'[p] # pc[p]) =>
              /\ pc'[p] = "llm"
              /\ events'[p] = events[p]
      ]_vars

\* C17 happens: in one turn a plan's input was rejected, the next plan's
\* tool reported a failure, and the stream closed with that failure as the
\* reply.
C17_Witness ==
    LET \* invokeTool is running for a plan of the LLM loop.
        llmCall(p) == ~call[p].null /\ call[p].from = "llm"
        \* invokeTool returned a structured failure to the LLM loop.
        failureReturned(p) ==
            /\ llmCall(p)
            /\ ~outcome[p].null
            /\ outcome[p].status = "error"
            /\ pc[p] # "save_outcome"
    IN
    \E p \in Procs :
        /\ failureReturned(p)
        /\ iter[p] >= 1
        /\ \E i \in 1..Len(session[p].history) :
              session[p].history[i].kind = "TOOL_INPUT_ERROR"
        /\ reply[p].text = outcome[p].result.message
        /\ pc[p] = "closed"

\* C18: for every tool and every input its schema rejects, invokeTool does
\* not call execute and emits neither a tool nor a tool_result event; it
\* emits one error event, appends a TOOL_INPUT_ERROR entry for the tool to
\* the history, saves the session (the entry is stored when the save
\* succeeds) and returns no outcome.
C18_RejectedInputHandling ==
    [][
    LET \* The input of the call does not satisfy the schema of its tool.
        rejectedInput(p) ==
            /\ call[p].name \in TOOL_NAMES
            /\ IF call[p].input.absent
               THEN call[p].name \notin {"list_notes", "list_leads", "list_followups"}
               ELSE ~call[p].input.valid
        \* invokeTool has recorded a rejected input and is about to save.
        savingRejected(p) ==
            /\ pc[p] = "save_null"
            /\ session[p].history # <<>>
            /\ Last(session[p].history).kind = "TOOL_INPUT_ERROR"
        \* invokeTool is about to validate an input its tool's schema rejects.
        validatingRejected(p) ==
            /\ pc[p] = "invoke"
            /\ ~call[p].null
            /\ rejectedInput(p)
    IN
       \A p \in Procs :
        /\ validatingRejected(p) =>
              /\ pc'[p] = "save_null"
              /\ execs'[p] = execs[p]
              /\ tables' = tables
              /\ Len(events'[p]) = Len(events[p]) + 1
              /\ SubSeq(events'[p], 1, Len(events[p])) = events[p]
              /\ Last(events'[p]).event = "error"
              /\ session'[p].history = Append(session[p].history,
                    Entry("assistant", "TOOL_INPUT_ERROR", call[p].name, Null))
              /\ outcome'[p].null
              /\ savingRejected(p)'
        /\ (savingRejected(p) /\ pc'[p] # pc[p]) =>
              /\ execs'[p] = execs[p]
              /\ tables' = tables
              /\ events'[p] = events[p]
              /\ outcome'[p].null
              /\ reply'[p] = reply[p]
              /\ \/ /\ saves'[p] = saves[p] + 1
                    /\ db'.history = session[p].history
                    /\ pc'[p] \in {"fast", "loop"}
                 \/ /\ faults' = faults + 1
                    /\ pc'[p] = "threw"
      ]_vars

\* C18 happens: a rejected input was recorded and saved, nothing was
\* executed, and the caller goes on without an outcome.
C18_Witness ==
    \E p \in Procs :
        /\ pc[p] \in {"fast", "loop"}
        /\ db.exists
        /\ db.history # <<>>
        /\ Last(db.history).kind = "TOOL_INPUT_ERROR"
        /\ db.history = session[p].history
        /\ execs[p] = <<>>
        /\ outcome[p].null
        /\ ~HasEvent(p, "tool")
        /\ ~HasEvent(p, "tool_result")
        /\ HasEvent(p, "error")

\* C19: create_lead, record_note, list_notes, delete_note,
\* schedule_followup, list_followups and complete_followup, executed in a
\* session without a user, return success:false ("No autenticado") without
\* throwing and without touching the tables; the turn streams that message
\* as its reply.
C19_NoUserIsStructuredFailure ==
    [][
    LET \* invokeTool got "No autenticado" from the tool and is about to save.
        refusedWithoutUser(p) ==
            /\ pc[p] = "save_outcome"
            /\ outcome[p].name \in AuthTools
            /\ ~outcome[p].result.success
            /\ outcome[p].result.message = MsgNoAuth
        \* execute of a tool that needs a user is about to run in a session that
        \* has none.
        executingWithoutUser(p) ==
            /\ pc[p] = "execute"
            /\ call[p].name \in AuthTools
            /\ session[p].auth = 0
    IN
       \A p \in Procs :
        /\ executingWithoutUser(p) =>
              /\ tables' = tables
              /\ faults' = faults
              /\ execs'[p] =
                    Append(execs[p], [name |-> call[p].name, how |-> "error"])
              /\ Last(events'[p]).event = "tool_result"
              /\ ~Last(events'[p]).result.success
              /\ Last(events'[p]).result.message = MsgNoAuth
              /\ refusedWithoutUser(p)'
        /\ (refusedWithoutUser(p) /\ saves'[p] > saves[p]) =>
              /\ pc'[p] = "stream"
              /\ reply'[p].text = MsgNoAuth
              /\ Len(events'[p]) >= Len(events[p]) + 2
              /\ events'[p][Len(events[p]) + 1].event = "assistant_message"
              /\ events'[p][Len(events[p]) + 2].event = "token"
      ]_vars

\* C19 happens: a plan called delete_note in a session without a user; the
\* seeded tables are as they were and the stream closed after the reply
\* "No autenticado".
C19_Witness ==
    \E p \in Procs :
        /\ session[p].auth = 0
        /\ execs[p] = <<[name |-> "delete_note", how |-> "error"]>>
        /\ tables = SeededTables
        /\ reply[p].text = MsgNoAuth
        /\ HasEvent(p, "assistant_done")
        /\ pc[p] = "closed"

(***************************************************************************)
(* The tools called directly (tools.ts: def.execute(input, { session })),   *)
(* by two sessions at once.                                                 *)
(***************************************************************************)
\* Calls each session makes.
MaxCalls == 2
\* Row ids a call may name: the seeded rows and an id no row has.
RowIds == {1, 2, 3}

\* Two sessions, each with a user, and tables with rows of both users.
InitRows ==
    /\ env = EnvUnset
    /\ db = NoRow
    /\ faults = 0
    /\ pc = [p \in Procs |-> "idle"]
    /\ msg = [p \in Procs |-> NoIntent]
    /\ llmTools = [p \in Procs |-> {}]
    /\ \E f \in [Procs -> Users] :
            session = [p \in Procs |-> [auth |-> f[p], history |-> <<>>]]
    /\ events = [p \in Procs |-> <<>>]
    /\ stage = [p \in Procs |-> 0]
    /\ iter = [p \in Procs |-> 0]
    /\ call = [p \in Procs |-> NoCall]
    /\ outcome = [p \in Procs |-> NoOutcome]
    /\ reply = [p \in Procs |-> [id |-> 0, text |-> <<>>]]
    /\ pending = [p \in Procs |-> <<>>]
    /\ llmCalls = [p \in Procs |-> 0]
    /\ saves = [p \in Procs |-> 0]
    /\ execs = [p \in Procs |-> <<>>]
    /\ exc = [p \in Procs |-> ""]
    /\ loaded = [p \in Procs |-> [len |-> 0, auth |-> 0]]
    /\ llmLog = [p \in Procs |-> <<>>]
    /\ tables = SeededTables

\* await def.execute(input, { session }): the result, or an exception of the
\* query.  iter counts the calls of the session; call, outcome and execs
\* describe its last call.
callTool(self, name, input) ==
    /\ iter' = [iter EXCEPT ![self] = @ + 1]
    /\ call' = [call EXCEPT ![self] =
            [null |-> FALSE, name |-> name, input |-> input,
             from |-> "llm", id |-> 0]]
    /\ \/ \E done \in executeResults(name, input, session[self], tables) :
            /\ outcome' = [outcome EXCEPT ![self] =
                    [null |-> FALSE, name |-> name,
                     status |-> IF done.result.success THEN "success"
                                ELSE "error",
                     parsedInput |-> input, result |-> done.result]]
            /\ execs' = [execs EXCEPT ![self] =
                    <<[name |-> name,
                       how |-> IF done.result.success THEN "success"
                               ELSE "error"]>>]
            /\ tables' = done.tables
            /\ UNCHANGED faults
       \/ /\ canFail
          /\ executeCanThrow(name, session[self])
          /\ faults' = faults + 1
          /\ outcome' = [outcome EXCEPT ![self] = NoOutcome]
          /\ execs' = [execs EXCEPT ![self] =
                <<[name |-> name, how |-> "threw"]>>]
          /\ UNCHANGED tables
    /\ UNCHANGED <<env, db, pc, msg, llmTools, session, events, stage, reply,
                   pending, llmCalls, saves, exc, loaded, llmLog>>

\* Another call may be made by the session.
mayCall(self) == iter[self] < MaxCalls

DeleteNote(self) ==
    /\ mayCall(self)
    /\ \E id \in RowIds : callTool(self, "delete_note", Input(TRUE, id))

CompleteFollowup(self) ==
    /\ mayCall(self)
    /\ \E id \in RowIds :
            callTool(self, "complete_followup", Input(TRUE, id))

NextRows ==
    \E self \in Procs :
        \/ DeleteNote(self)
        \/ CompleteFollowup(self)

SpecRows == InitRows /\ [][NextRows]_vars

\* C20: delete_note and complete_followup never change a row of another
\* user.  Whatever calls two sessions interleave, a call leaves the rows of
\* every other user as they were; a call that names a row of another user
\* changes nothing and, if its statement completes, returns success:false;
\* test and change are one step: a call changes at most the one row that
\* has the given id and the caller's user_id, and it reports success
\* exactly when that row existed.
C20_RowsOfOthersUntouched ==
    [][
    LET \* The rows of the table that do not belong to the user.
        rowsOfOthers(rows, u) == {r \in rows : r.user_id # u}
    IN
       \A p \in Procs :
        (iter'[p] # iter[p] /\ call'[p].name \in RowTools) =>
            LET u == session[p].auth
                c == call'[p]
                how == Last(execs'[p]).how
                rows == IF c.name = "delete_note" THEN tables.note
                        ELSE tables.follow_up
                rows2 == IF c.name = "delete_note" THEN tables'.note
                         ELSE tables'.follow_up
                own == {r \in rows : r.id = c.input.arg /\ r.user_id = u}
            IN  /\ rowsOfOthers(tables'.note, u) = rowsOfOthers(tables.note, u)
                /\ rowsOfOthers(tables'.follow_up, u) =
                        rowsOfOthers(tables.follow_up, u)
                /\ (\E r \in rows : r.id = c.input.arg /\ r.user_id # u) =>
                        /\ tables' = tables
                        /\ how \in {"error", "threw"}
                        /\ how = "error" => ~outcome'[p].result.success
                /\ how # "threw" => (how = "success" <=> own # {})
                /\ (how = "success" /\ c.name = "delete_note") =>
                        rows2 = rows \ own
                /\ (how = "success" /\ c.name = "complete_followup") =>
                        rows2 = (rows \ own) \cup
                                {FollowUpRow(c.input.arg, u, "completed")}
                /\ how # "success" => tables' = tables
                /\ {r \in rows : r.id # c.input.arg} =
                        {r \in rows2 : r.id # c.input.arg}
      ]_vars

\* C20 happens: two sessions of different users have both called; one asked
\* to delete a note of the other, got success:false, and the note is there.
C20_Witness ==
    \E p, q \in Procs :
        /\ session[p].auth # session[q].auth
        /\ execs[p] # <<>>
        /\ execs[q] # <<>>
        /\ Last(execs[p]) = [name |-> "delete_note", how |-> "error"]
        /\ ~outcome[p].null
        /\ outcome[p].name = "delete_note"
        /\ ~outcome[p].result.success
        /\ NoteRow(call[p].input.arg, session[q].auth) \in tables.note

\* C21: an exception thrown by a tool's execute is caught by invokeTool.
\* The step that throws emits a tool_result event with the id of the call's
\* tool event, status error and the exception's message, appends a
\* TOOL_EXEC_ERROR entry to the history and raises nothing; the next step
\* saves the session (the entry is stored when the store accepts it) and
\* returns to the caller, and the tool's exception never leaves the turn.
C21_ToolExceptionCaught ==
    [][
    LET \* invokeTool has caught an exception of execute and is about to save.
        savingCaught(p) ==
            /\ pc[p] = "save_null"
            /\ execs[p] # <<>>
            /\ Last(execs[p]).how = "threw"
            /\ session[p].history # <<>>
            /\ Last(session[p].history).kind = "TOOL_EXEC_ERROR"
    IN
       \A p \in Procs :
        /\ (pc[p] = "execute" /\ pc'[p] # pc[p]
            /\ Last(execs'[p]).how = "threw") =>
              /\ pc'[p] = "save_null"
              /\ exc'[p] = exc[p]
              /\ tables' = tables
              /\ outcome'[p] = outcome[p]
              /\ events'[p] = Append(events[p],
                    EvToolResult(call[p].id, call[p].name, call[p].input,
                                 Null, "error", ToolError))
              /\ \E k \in 1..Len(events[p]) :
                    /\ events[p][k].event = "tool"
                    /\ events[p][k].id = call[p].id
                    /\ events[p][k].name = call[p].name
              /\ session'[p].history = Append(session[p].history,
                    Entry("assistant", "TOOL_EXEC_ERROR", call[p].name,
                          ToolError))
              /\ savingCaught(p)'
        /\ (savingCaught(p) /\ pc'[p] # pc[p]) =>
              /\ events'[p] = events[p]
              /\ outcome'[p].null
              /\ \/ /\ saves'[p] = saves[p] + 1
                    /\ db'.history = session[p].history
                    /\ pc'[p] \in {"fast", "loop"}
                    /\ exc'[p] = exc[p]
                 \/ /\ faults' = faults + 1
                    /\ pc'[p] = "threw"
                    /\ exc'[p] = StoreError
        /\ exc'[p] # ToolError
      ]_vars

\* C21 happens: a tool threw, the turn went on and ended without an
\* exception, and the stored history has the TOOL_EXEC_ERROR entry.
C21_Witness ==
    \E p \in Procs :
        /\ pc[p] = "closed"
        /\ \E k \in 1..Len(execs[p]) : execs[p][k].how = "threw"
        /\ \E k \in 1..Len(events[p]) :
              /\ events[p][k].event = "tool_result"
              /\ events[p][k].status = "error"
              /\ events[p][k].error = ToolError
        /\ \E i \in 1..Len(db.history) :
              /\ db.history[i].kind = "TOOL_EXEC_ERROR"
              /\ db.history[i].data = ToolError

(***************************************************************************)
(* Two requests at once on a conversation id that has no row yet           *)
(***************************************************************************)
\* What the two requests say: one asks for a document search or gives the
\* credentials of user 1, the other matches no extractor and is answered by
\* the provider.
SearchIntent == [NoIntent EXCEPT !["search_docs"] = Input(TRUE, 1)]
FirstMessages ==
    {SearchIntent, [NoIntent EXCEPT !["verify_passcode"] = Input(TRUE, 1)]}

InitFirst ==
    /\ env = EnvNum(3)
    /\ db = NoRow
    /\ faults = 0
    /\ pc = [p \in Procs |-> "start"]
    /\ \E m \in FirstMessages :
            msg = [p \in Procs |-> IF p = 1 THEN m ELSE NoIntent]
    /\ llmTools = [p \in Procs |-> {}]
    /\ session = [p \in Procs |-> NoSession]
    /\ events = [p \in Procs |-> <<>>]
    /\ stage = [p \in Procs |-> 0]
    /\ iter = [p \in Procs |-> 0]
    /\ call = [p \in Procs |-> NoCall]
    /\ outcome = [p \in Procs |-> NoOutcome]
    /\ reply = [p \in Procs |-> [id |-> 0, text |-> <<>>]]
    /\ pending = [p \in Procs |-> <<>>]
    /\ llmCalls = [p \in Procs |-> 0]
    /\ saves = [p \in Procs |-> 0]
    /\ execs = [p \in Procs |-> <<>>]
    /\ exc = [p \in Procs |-> ""]
    /\ loaded = [p \in Procs |-> [len |-> 0, auth |-> 0]]
    /\ llmLog = [p \in Procs |-> <<>>]
    /\ tables = EmptyTables

SpecFirst == InitFirst /\ [][Next]_vars

\* C22: concurrent getSession calls for an id that has no row are
\* race-safe: when the store itself does not fail, every call leaves the
\* one row of the id in place and returns a session for it; no call throws
\* or finds no row.
C22_FirstAccessRaceSafe ==
    LET \* getSession of the request is over (it returned or threw).
        gotSession(p) == pc[p] \notin {"idle", "start", "get_insert"}
    IN
    \A p \in Procs :
        (gotSession(p) /\ faults = 0) =>
            /\ db.exists
            /\ exc[p] # NullRowError
            /\ pc[p] \notin {"threw", "closed_error"}

\* C23: when two turns on the same new conversation id run concurrently
\* and both have finished without an exception (and nothing else failed),
\* the stored history has the user message of each of them.
C23_FirstMessagesKept ==
    LET \* The stored history has the user message of the request.
        storedUserMessage(p) ==
            \E i \in 1..Len(db.history) :
                db.history[i] = Entry("user", "USER", "", msg[p])
    IN
    (faults = 0 /\ \A p \in Procs : pc[p] = "closed") =>
        \A p \in Procs : storedUserMessage(p)

(***************************************************************************)
(* saveSession called directly (session-store.ts 85-95), on histories      *)
(* around the clamp                                                        *)
(***************************************************************************)
\* Lengths of the in-memory history when the first save is made.
SaveLens == {0, 1, 2, 119, 120, 121, 123}

\* A history of n entries, each different from the others.
numberedHistory(n) == [i \in 1..n |-> Entry("user", "USER", "", i)]

\* Rows of the session table for the conversation id, with the columns the
\* UPDATE does not name.
StoredRows ==
    {[exists |-> TRUE, id |-> "c1", created_at |-> 1, auth |-> a,
      history |-> h] :
        a \in {0, 2}, h \in {<<>>, <<Entry("assistant", "TEXT", "", 0)>>}}

InitSave ==
    /\ env = EnvUnset
    /\ db \in StoredRows
    /\ faults = 0
    /\ pc = [p \in Procs |-> "idle"]
    /\ msg = [p \in Procs |-> NoIntent]
    /\ llmTools = [p \in Procs |-> {}]
    /\ \E a \in {0, 1}, n \in SaveLens :
            session = [p \in Procs |->
                          IF p = 1
                          THEN [auth |-> a, history |-> numberedHistory(n)]
                          ELSE [auth |-> 2, history |-> numberedHistory(121)]]
    /\ events = [p \in Procs |-> <<>>]
    /\ stage = [p \in Procs |-> 0]
    /\ iter = [p \in Procs |-> 0]
    /\ call = [p \in Procs |-> NoCall]
    /\ outcome = [p \in Procs |-> NoOutcome]
    /\ reply = [p \in Procs |-> [id |-> 0, text |-> <<>>]]
    /\ pending = [p \in Procs |-> <<>>]
    /\ llmCalls = [p \in Procs |-> 0]
    /\ saves = [p \in Procs |-> 0]
    /\ execs = [p \in Procs |-> <<>>]
    /\ exc = [p \in Procs |-> ""]
    /\ loaded = [p \in Procs |-> [len |-> 0, auth |-> 0]]
    /\ llmLog = [p \in Procs |-> <<>>]
    /\ tables = EmptyTables

\* session.history.push(entry): iter counts the pushes of the session.
PushEntry(self) ==
    /\ iter[self] < MaxCalls
    /\ iter' = [iter EXCEPT ![self] = @ + 1]
    /\ session' = [session EXCEPT ![self].history =
            Append(@, Entry("assistant", "TEXT", "", Len(@) + 1))]
    /\ UNCHANGED <<env, db, faults, pc, msg, llmTools, events, stage, call,
                   outcome, reply, pending, llmCalls, saves, execs, exc,
                   loaded, llmLog, tables>>

\* await saveSession(session): the UPDATE, or an exception of the query.
SaveSession(self) ==
    /\ saves[self] < MaxCalls
    /\ \/ /\ db' = saveSession(db, session[self])
          /\ saves' = [saves EXCEPT ![self] = @ + 1]
          /\ UNCHANGED <<faults, exc>>
       \/ /\ canFail
          /\ faults' = faults + 1
          /\ exc' = [exc EXCEPT ![self] = StoreError]
          /\ UNCHANGED <<db, saves>>
    /\ UNCHANGED <<env, pc, msg, llmTools, session, events, stage, iter,
                   call, outcome, reply, pending, llmCalls, execs, loaded,
                   llmLog, tables>>

NextSave == \E self \in Procs : PushEntry(self) \/ SaveSession(self)

SpecSave == InitSave /\ [][NextSave]_vars

\* C24: saveSession stores exactly the last min(n, 120) entries of the
\* in-memory history of n entries, in their order, so that the stored
\* history never has more than 120 entries, and it leaves the in-memory
\* session as it was.
C24_SaveClampsToLast120 ==
    [][
    LET \* The session's save has just been stored.
        saved(p) == saves'[p] = saves[p] + 1
    IN
       \A p \in Procs :
        saved(p) =>
            LET h == session[p].history
                n == Len(h)
                k == IF n < 120 THEN n ELSE 120
            IN  /\ Len(db'.history) = k
                /\ k <= 120
                /\ \A i \in 1..k : db'.history[i] = h[n - k + i]
                /\ session' = session
      ]_vars

\* C24 happens: a history of 123 entries was saved; 120 are stored, the
\* first of them is the fourth entry in memory, and the session in memory
\* still has 123.
C24_Witness ==
    \E p \in Procs :
        /\ saves[p] > 0
        /\ Len(session[p].history) = 123
        /\ Len(db.history) = 120
        /\ db.history[1] = session[p].history[4]
        /\ db.history[120] = session[p].history[123]

\* C25: saveSession overwrites the two mutable columns in full and is
\* idempotent: what is stored after a save is determined by the session
\* passed alone, whatever was stored before; a save of a session whose
\* values are already stored changes nothing; and no save changes the id
\* or the creation time of the row.
C25_SaveIsIdempotentOverwrite ==
    [][
    LET \* The session's save has just been stored.
        saved(p) == saves'[p] = saves[p] + 1
        \* The last 120 entries of a history (all of it when it has fewer).
        lastEntries(h) ==
            IF Len(h) <= 120 THEN h ELSE SubSeq(h, Len(h) - 119, Len(h))
    IN
       \A p \in Procs :
        saved(p) =>
            /\ db'.auth = session[p].auth
            /\ db'.history = lastEntries(session[p].history)
            /\ db'.exists
            /\ db'.id = db.id
            /\ db'.created_at = db.created_at
            /\ (db.auth = session[p].auth
                  /\ db.history = lastEntries(session[p].history)) => db' = db
      ]_vars

\* C25 happens: the row held another user and another history; the session
\* was saved twice in a row and the row has the session's values, its id
\* and its creation time.
C25_Witness ==
    \E p \in Procs :
        /\ saves[p] = 2
        /\ iter[p] = 0
        /\ \A q \in Procs \ {p} : saves[q] = 0 /\ session[q].auth # session[p].auth
        /\ db.auth = session[p].auth
        /\ Len(session[p].history) = 2
        /\ db.history = session[p].history
        /\ db.id = "c1"
        /\ db.created_at = 1

\* The messages of the exceptions the provider, the store and the tools'
\* queries raise.
RawErrors == {ProviderError, StoreError, ToolError, NullRowError}

\* C26: no thought, token or error event of a turn carries the raw message
\* of a provider or database exception, in turns where the provider, a tool
\* or the store fails included.
C26_NoRawErrorInEvents ==
    \A p \in Procs :
        \A k \in 1..Len(events[p]) :
            LET e == events[p][k] IN
            /\ e.event = "thought" =>
                  \A r \in RawErrors : e.text # r /\ e.text # "Fallback: " \o r
            /\ e.event = "token" => e.value \notin RawErrors
            /\ e.event = "error" => e.message \notin RawErrors

\* C27 (as stated): after the execution of a tool threw, that tool is not
\* executed again in the same turn.
C27_NoExecutionAfterThrow ==
    \A p \in Procs :
        \A i, j \in 1..Len(execs[p]) :
            (i < j /\ execs[p][i].how = "threw") =>
                execs[p][j].name # execs[p][i].name

\* C27 (amended): invokeTool never retries.  Every execution belongs to an
\* invocation of its own (there are as many tool events as executions, one
\* more while execute is running); the fast paths execute a tool at most
\* once in a turn, whether it threw or not; every further execution of the
\* tool, after a throw included, is for a plan of the provider that asks
\* for a tool in a later iteration of the LLM loop.
C27_ReexecutionOnlyByPlan ==
    LET \* The executions of the tool in the turn (positions in execs).
        executionsOf(p, name) == {k \in 1..Len(execs[p]) : execs[p][k].name = name}
        \* The tool events of the turn: one per invocation that passed validation.
        toolEvents(p) == {k \in 1..Len(events[p]) : events[p][k].event = "tool"}
        \* The plans of the provider in the turn whose action is a tool.
        toolPlans(p) == {k \in 1..Len(llmLog[p]) : llmLog[p][k] = "tool"}
    IN
    \A p \in Procs :
        pc[p] # "idle" =>
            /\ Cardinality(toolEvents(p)) =
                  Len(execs[p]) + (IF pc[p] = "execute" THEN 1 ELSE 0)
            /\ \A n \in TOOL_NAMES :
                  Cardinality(executionsOf(p, n)) <=
                      (IF n \in FastTools /\ ~msg[p][n].absent THEN 1 ELSE 0)
                      + Cardinality(toolPlans(p))
            /\ llmCalls[p] = 0 =>
                  \A n \in TOOL_NAMES : Cardinality(executionsOf(p, n)) <= 1

\* C27 happens: a tool threw, a later plan of the provider asked for it
\* again, it ran, and the stream was closed.
C27_Witness ==
    LET \* The plans of the provider in the turn whose action is a tool.
        toolPlans(p) == {k \in 1..Len(llmLog[p]) : llmLog[p][k] = "tool"}
    IN
    \E p \in Procs :
        /\ Len(execs[p]) = 2
        /\ execs[p][1].how = "threw"
        /\ execs[p][2].name = execs[p][1].name
        /\ execs[p][2].how = "success"
        /\ Cardinality(toolPlans(p)) = 2
        /\ pc[p] = "closed"

\* C28: the in-memory history of a turn is append-only: every step of
\* runAgent leaves the history it found as the beginning of the history it
\* leaves, and the history getSession loaded stays at its beginning.
C28_HistoryAppendOnly ==
    [][
    LET \* The sequence s is the beginning of the sequence t.
        isPrefix(s, t) == Len(s) <= Len(t) /\ SubSeq(t, 1, Len(s)) = s
    IN
       \A p \in Procs :
        /\ isPrefix(session[p].history, session'[p].history)
        /\ session[p].history # <<>> =>
              /\ loaded'[p] = loaded[p]
              /\ Len(session[p].history) > loaded[p].len
              /\ session'[p].history[loaded[p].len + 1] =
                    Entry("user", "USER", "", msg[p])
      ]_vars

\* C28 happens: a turn on a conversation with two stored entries ended with
\* at least five entries in memory, the stored two first.
C28_Witness ==
    \E p \in Procs :
        /\ pc[p] = "closed"
        /\ loaded[p].len = 2
        /\ Len(session[p].history) >= 5
        /\ SubSeq(session[p].history, 1, 2) = PriorHistory
        /\ session[p].history[3] = Entry("user", "USER", "", msg[p])

\* C29: every change of the session in a turn is stored before the turn
\* ends: when runAgent has returned without an exception (no other turn
\* writing the conversation), the stored user is the user in memory and the
\* stored history is the last 120 entries of the history in memory.
C29_SessionStoredAtEnd ==
    LET \* runAgent returned without throwing.
        endedNormally(p) == pc[p] \in {"returned", "closed"}
        \* The last 120 entries of a history (all of it when it has fewer).
        lastEntries(h) ==
            IF Len(h) <= 120 THEN h ELSE SubSeq(h, Len(h) - 119, Len(h))
    IN
    \A p \in Procs :
        endedNormally(p) =>
            /\ db.exists
            /\ db.auth = session[p].auth
            /\ db.history = lastEntries(session[p].history)

\* C29 happens: a turn that got its user and added tool entries and a reply
\* to the history has closed, and the row holds all of it.
C29_Witness ==
    \E p \in Procs :
        /\ pc[p] = "closed"
        /\ session[p].auth # 0
        /\ loaded[p].auth = 0
        /\ Len(session[p].history) >= loaded[p].len + 4
        /\ db.auth = session[p].auth
        /\ db.history = session[p].history


(***************************************************************************)
(* C30: streamed replies are framed                                         *)
(***************************************************************************)

\* C30: each streamed reply of a turn is framed in order as
\* assistant_message(id), one or more token(id), assistant_done(id): a token
\* directly follows the assistant_message or a token of the same id, an
\* assistant_done directly follows a token of the same id, an
\* assistant_message or token is followed by nothing but a token or the
\* assistant_done of its reply, and only a turn that is still streaming has a
\* reply without its assistant_done.
C30_StreamFraming ==
    LET \* The events of a turn that belong to a streamed reply.
        FrameEvents == {"assistant_message", "token", "assistant_done"}
        \* The k-th event of the turn is inside a reply that is not yet done.
        openFrame(p, k) == events[p][k].event \in {"assistant_message", "token"}
    IN
    \A p \in Procs :
        LET evs == events[p]
        IN  /\ \A k \in 1..Len(evs) :
                /\ evs[k].event = "token" =>
                      /\ k > 1
                      /\ openFrame(p, k - 1)
                      /\ evs[k - 1].id = evs[k].id
                /\ evs[k].event = "assistant_done" =>
                      /\ k > 1
                      /\ evs[k - 1].event = "token"
                      /\ evs[k - 1].id = evs[k].id
                /\ (openFrame(p, k) /\ k < Len(evs)) =>
                      /\ evs[k + 1].event \in {"token", "assistant_done"}
                      /\ evs[k + 1].id = evs[k].id
                /\ evs[k].event = "assistant_message" =>
                      \A j \in 1..(k - 1) :
                          evs[j].event \in FrameEvents => evs[j].id # evs[k].id
            /\ (evs # <<>> /\ openFrame(p, Len(evs))) => pc[p] = "stream"

\* A closed turn that streamed a reply of several tokens.
C30_Witness ==
    \E p \in Procs :
        /\ pc[p] = "closed"
        /\ \E k \in 1..Len(events[p]) :
              /\ k + 3 <= Len(events[p])
              /\ events[p][k].event = "assistant_message"
              /\ events[p][k + 1].event = "token"
              /\ events[p][k + 2].event = "token"
              /\ \E j \in (k + 3)..Len(events[p]) :
                    /\ events[p][j].event = "assistant_done"
                    /\ events[p][j].id = events[p][k].id


(***************************************************************************)
(* A reply text is streamed (agent.ts 125-139, 183-192): the texts are      *)
(* drawn from the pieces below, the only step is emitStreamingText          *)
(***************************************************************************)
\* Pieces text.split(/(\s+)/).filter(Boolean) can hold in a text.
MaxPieces == 4

\* Words of 4, 10, 18 and 21 characters, and runs of white space.
Words == {"hola", "0123456789", "abcdefghijklmnopqr", "abcdefghijklmnopqrstu"}
Spaces == {" ", "   "}

\* split with a capturing group alternates words and white space, and
\* filter(Boolean) drops the empty pieces: no two neighbours are of one kind.
SplitTexts ==
    UNION {{t \in [1..n -> Words \cup Spaces] :
                \A i \in 1..(n - 1) : (t[i] \in Words) # (t[i + 1] \in Words)} :
           n \in 0..MaxPieces}

InitChunk ==
    /\ env = EnvUnset
    /\ db = NoRow
    /\ faults = 0
    /\ pc = [p \in Procs |-> "idle"]
    /\ msg = [p \in Procs |-> NoIntent]
    /\ llmTools = [p \in Procs |-> {}]
    /\ session = [p \in Procs |-> [auth |-> 0, history |-> <<>>]]
    /\ events = [p \in Procs |-> <<>>]
    /\ stage = [p \in Procs |-> 0]
    /\ iter = [p \in Procs |-> 0]
    /\ call = [p \in Procs |-> NoCall]
    /\ outcome = [p \in Procs |-> NoOutcome]
    /\ \E t \in SplitTexts, u \in {<<>>, <<"hola", " ", "abcdefghijklmnopqr">>} :
            reply = [p \in Procs |->
                        [id |-> 0, text |-> IF p = 1 THEN t ELSE u]]
    /\ pending = [p \in Procs |-> <<>>]
    /\ llmCalls = [p \in Procs |-> 0]
    /\ saves = [p \in Procs |-> 0]
    /\ execs = [p \in Procs |-> <<>>]
    /\ exc = [p \in Procs |-> ""]
    /\ loaded = [p \in Procs |-> [len |-> 0, auth |-> 0]]
    /\ llmLog = [p \in Procs |-> <<>>]
    /\ tables = EmptyTables

\* await emitStreamingText(emit, text), up to its first delay.
EmitStreamingText(self) ==
    /\ pc[self] = "idle"
    /\ reply[self].id = 0
    /\ emitStreamingText(self, events[self], reply[self].text)
    /\ UNCHANGED <<env, db, faults, msg, llmTools, session, stage, iter, call,
                   outcome, llmCalls, saves, execs, exc, loaded, llmLog,
                   tables>>

NextChunk == \E self \in Procs : EmitStreamingText(self) \/ Stream(self)

SpecChunk == InitChunk /\ [][NextChunk]_vars

\* The values of the token events of a turn, in order.
RECURSIVE tokenValues(_)
tokenValues(evs) ==
    IF evs = <<>> THEN <<>>
    ELSE IF Head(evs).event = "token"
         THEN <<Head(evs).value>> \o tokenValues(Tail(evs))
         ELSE tokenValues(Tail(evs))

(***************************************************************************)
(* C31: chunkResponse loses nothing                                         *)
(***************************************************************************)
\* C31: for every reply text, the chunks chunkResponse returns concatenate in
\* order to the text exactly, there is at least one chunk (also for the empty
\* text), and every chunk except the last has at least 18 characters; the
\* chunks streamed and still to stream are those chunks.
C31_ChunksLoseNothing ==
    \A p \in Procs :
        LET text == reply[p].text
            chunks == chunkResponse(text)
        IN  /\ Join(chunks) = Join(text)
            /\ Len(chunks) >= 1
            /\ \A i \in 1..(Len(chunks) - 1) : Len(chunks[i]) >= 18
            /\ reply[p].id # 0 =>
                  tokenValues(events[p]) \o pending[p] = chunks

\* C31 happens: a text of several pieces was streamed in at least two chunks,
\* the last one shorter than 18 characters.
C31_Witness ==
    \E p \in Procs :
        /\ pc[p] = "save_reply"
        /\ Len(reply[p].text) >= 3
        /\ Len(tokenValues(events[p])) >= 2
        /\ Len(Last(tokenValues(events[p]))) < 18

\* C31 for the empty text: one empty chunk was streamed.
C31_WitnessEmpty ==
    \E p \in Procs :
        /\ pc[p] = "save_reply"
        /\ reply[p].text = <<>>
        /\ tokenValues(events[p]) = <<"">>


(***************************************************************************)
(* C32: tool events are paired with one tool_result                         *)
(***************************************************************************)
\* C32: every tool event of a turn is directly followed by a tool_result of
\* the same id and name (only while execute is running it is the last
\* event), no other tool_result carries that id, and every tool_result has
\* an earlier tool event of the same id.
C32_ToolEventsPaired ==
    \A p \in Procs :
        LET evs == events[p]
            results(c) == {j \in 1..Len(evs) :
                              evs[j].event = "tool_result" /\ evs[j].id = c}
        IN  /\ \A k \in 1..Len(evs) :
                  evs[k].event = "tool" =>
                      /\ k = Len(evs) => pc[p] = "execute"
                      /\ k < Len(evs) =>
                            /\ evs[k + 1].event = "tool_result"
                            /\ evs[k + 1].id = evs[k].id
                            /\ evs[k + 1].name = evs[k].name
                      /\ Cardinality(results(evs[k].id)) <= 1
            /\ \A j \in 1..Len(evs) :
                  evs[j].event = "tool_result" =>
                      \E k \in 1..(j - 1) :
                          evs[k].event = "tool" /\ evs[k].id = evs[j].id


(***************************************************************************)
(* C33: the plans the loop acts on satisfy the tagged union                 *)
(***************************************************************************)
\* C33: whenever the LLM loop is about to read a completion, whatever the
\* provider returns, the plan parsePlan returns and the plan fallbackPlan
\* builds are of the tagged union (action tool: a tool of the registry and
\* no final response; action respond: a non-empty final response and no
\* tool) and parsePlan returns null for a payload with both a tool and a
\* final response; and what the loop does with a plan follows the tag:
\* invokeTool runs for a name of the registry, or a non-empty text is
\* streamed.
C33_PlansAreTagged ==
    LET tagged(plan) ==
            /\ plan.action \in {"tool", "respond"}
            /\ plan.action = "tool" =>
                  /\ ~plan.tool.null
                  /\ plan.tool.name \in TOOL_NAMES
                  /\ plan.final_response.null
            /\ plan.action = "respond" =>
                  /\ ~plan.final_response.null
                  /\ Join(plan.final_response.text) # ""
                  /\ plan.tool.null
        hasBoth(c) ==
            /\ c.form # "garbage"
            /\ ~c.payload.tool.null
            /\ ~c.payload.final_response.null
    IN
    \A p \in Procs :
        /\ pc[p] \in {"llm", "retry"} =>
            /\ \A c \in LLMContents(llmTools[p]) :
                  LET plan == parsePlan(c)
                  IN  /\ ~plan.null => tagged(plan)
                      /\ hasBoth(c) => plan.null
            /\ \A a \in BOOLEAN : tagged(fallbackPlan(ProviderError, a))
        /\ (pc[p] = "invoke" /\ ~call[p].null /\ call[p].from = "llm") =>
              call[p].name \in TOOL_NAMES
        /\ (pc[p] = "stream" /\ llmLog[p] # <<>>) =>
              Join(reply[p].text) # ""

\* C33 happens: a completion was rejected, the retry gave a tool plan and
\* invokeTool is about to run for it.
C33_Witness ==
    \E p \in Procs :
        /\ Len(llmLog[p]) = 2
        /\ llmLog[p][1] = "unparsed"
        /\ llmLog[p][2] = "tool"
        /\ pc[p] = "invoke"
        /\ ~call[p].null
        /\ call[p].from = "llm"


(***************************************************************************)
(* createEmbedding (embeddings.ts 34-96).  In this specification stage is   *)
(* the request variant a call is at, execs the requests it has sent with    *)
(* what came back, outcome the vector returned and exc the error thrown.    *)
(***************************************************************************)
\* The three requests, in the order of the code: /api/embed with
\* input: text, /api/embed with input: [text], /api/embeddings with prompt.
Variants == <<"embed_string", "embed_array", "embeddings_legacy">>

\* What a request can come to: a 2xx answer with { embeddings: number[][] },
\* with { embedding: number[] } or with anything else (also invalid JSON), a
\* non-2xx answer, or fetch rejecting (network error, abort after 8 s).
\* res.ok && hasEmbeddings(j) for the first two variants, res.ok &&
\* hasLegacy(j) for the third.
validShape(variant, response) ==
    IF variant = "embeddings_legacy"
    THEN response = "ok_embedding"
    ELSE response = "ok_embeddings"

\* One await fetchWithTimeout(...) of createEmbedding and the code up to the
\* next one: fetchWithTimeout rethrows what fetch rejects with, a valid
\* answer is returned, otherwise the next variant follows, and after the
\* third the error "Embeddings vacios" is thrown.
fetchVariant(self, k) ==
    \E response \in {"ok_embeddings", "ok_embedding", "ok_other", "status",
                     "network"} :
        /\ execs' = [execs EXCEPT ![self] =
                        Append(@, [name |-> Variants[k], how |-> response])]
        /\ IF response = "network"
           THEN /\ throw(self, "Embeddings: fallo de red/timeout hacia "
                               \o Variants[k])
                /\ UNCHANGED <<stage, outcome>>
           ELSE IF validShape(Variants[k], response)
           THEN /\ outcome' = [outcome EXCEPT ![self] =
                                [null |-> FALSE, vector |-> response]]
                /\ pc' = [pc EXCEPT ![self] = "returned"]
                /\ UNCHANGED <<stage, exc>>
           ELSE IF k < Len(Variants)
           THEN /\ stage' = [stage EXCEPT ![self] = k + 1]
                /\ UNCHANGED <<pc, outcome, exc>>
           ELSE /\ throw(self, "Embeddings vacios. Ultima resp: " \o response)
                /\ UNCHANGED <<stage, outcome>>
        /\ UNCHANGED <<env, db, faults, msg, llmTools, session, events, iter,
                       call, reply, pending, llmCalls, saves, loaded, llmLog,
                       tables>>

\* 1) /api/embed con string
EmbedString(self) ==
    /\ pc[self] = "embed" /\ stage[self] = 1
    /\ fetchVariant(self, 1)

\* 2) /api/embed con array
EmbedArray(self) ==
    /\ pc[self] = "embed" /\ stage[self] = 2
    /\ fetchVariant(self, 2)

\* 3) /api/embeddings legacy
EmbedLegacy(self) ==
    /\ pc[self] = "embed" /\ stage[self] = 3
    /\ fetchVariant(self, 3)

InitEmbed ==
    /\ env = EnvUnset
    /\ db = NoRow
    /\ faults = 0
    /\ pc = [p \in Procs |-> "embed"]
    /\ msg = [p \in Procs |-> NoIntent]
    /\ llmTools = [p \in Procs |-> {}]
    /\ session = [p \in Procs |-> [auth |-> 0, history |-> <<>>]]
    /\ events = [p \in Procs |-> <<>>]
    /\ stage = [p \in Procs |-> 1]
    /\ iter = [p \in Procs |-> 0]
    /\ call = [p \in Procs |-> NoCall]
    /\ outcome = [p \in Procs |-> NoOutcome]
    /\ reply = [p \in Procs |-> [id |-> 0, text |-> <<>>]]
    /\ pending = [p \in Procs |-> <<>>]
    /\ llmCalls = [p \in Procs |-> 0]
    /\ saves = [p \in Procs |-> 0]
    /\ execs = [p \in Procs |-> <<>>]
    /\ exc = [p \in Procs |-> ""]
    /\ loaded = [p \in Procs |-> [len |-> 0, auth |-> 0]]
    /\ llmLog = [p \in Procs |-> <<>>]
    /\ tables = EmptyTables

NextEmbed ==
    \E self \in Procs :
        EmbedString(self) \/ EmbedArray(self) \/ EmbedLegacy(self)

SpecEmbed == InitEmbed /\ [][NextEmbed]_vars

(***************************************************************************)
(* C34: createEmbedding tries the three variants before it raises           *)
(***************************************************************************)
\* C34: a call of createEmbedding sends its requests in the order of the
\* three variants, returns the vector of the first variant answered with a
\* valid shape, and raises an error only after all three variants were
\* attempted, whatever way an earlier one failed.
C34_ErrorOnlyAfterThreeVariants ==
    \A p \in Procs :
        /\ Len(execs[p]) <= Len(Variants)
        /\ \A k \in 1..Len(execs[p]) :
              /\ execs[p][k].name = Variants[k]
              /\ k < Len(execs[p]) =>
                    ~validShape(Variants[k], execs[p][k].how)
        /\ pc[p] = "returned" =>
              /\ execs[p] # <<>>
              /\ validShape(Last(execs[p]).name, Last(execs[p]).how)
              /\ outcome[p].vector = Last(execs[p]).how
        /\ pc[p] = "threw" => Len(execs[p]) = Len(Variants)


(***************************************************************************)
(* The client aborts the transport (route.ts 75-86).  The route registers   *)
(* no cancel callback and reads no abort signal.  The point where the       *)
(* client went away is marked in the request's stream by an entry           *)
(* [event |-> "abort"].  What controller.enqueue does after it depends on   *)
(* the runtime: if the runtime does not cancel the stream, enqueue is       *)
(* accepted and the steps of the turn are those of Spec; if it cancels the  *)
(* stream, enqueue throws a TypeError, here for the emits of a tool call    *)
(* that is executing and for the emit of the route's catch.                 *)
(***************************************************************************)
\* The client has aborted the transport of the request.
aborted(p) == \E k \in 1..Len(events[p]) : events[p][k].event = "abort"

\* The client aborts while the turn is running.
Abort(self) ==
    /\ pc[self] \notin {"idle", "closed", "closed_error"}
    /\ ~aborted(self)
    /\ events' = [events EXCEPT ![self] = Append(@, [event |-> "abort"])]
    /\ UNCHANGED <<env, db, faults, pc, msg, llmTools, session, stage, iter,
                   call, outcome, reply, pending, llmCalls, saves, execs, exc,
                   loaded, llmLog, tables>>

\* await def.execute(...) ends on a cancelled stream: the tool has run, the
\* emit of tool_result throws inside the try, the emit of the catch throws
\* as well, and the exception leaves invokeTool before any
\* session.history.push and before saveSession (agent.ts 442-497).
ExecuteCancelled(self) ==
    /\ pc[self] = "execute"
    /\ aborted(self)
    /\ LET c == call[self] IN
       \E done \in executeResults(c.name, c.input, session[self], tables) :
            /\ tables' = done.tables
            /\ execs' = [execs EXCEPT ![self] =
                  Append(@, [name |-> c.name,
                             how |-> IF done.result.success
                                     THEN "success" ELSE "error"])]
    /\ throw(self, "Invalid state: Controller is already closed")
    /\ UNCHANGED <<env, db, faults, msg, llmTools, session, events, stage,
                   iter, call, outcome, reply, pending, llmCalls, saves,
                   loaded, llmLog>>

\* The catch of the route on a cancelled stream: emit("error", ...) throws,
\* controller.close() in the finally throws, nothing is put on the stream.
PostCancelled(self) ==
    /\ pc[self] = "threw"
    /\ aborted(self)
    /\ pc' = [pc EXCEPT ![self] = "closed_error"]
    /\ UNCHANGED <<env, db, faults, msg, llmTools, session, events, stage,
                   iter, call, outcome, reply, pending, llmCalls, saves,
                   execs, exc, loaded, llmLog, tables>>

\* One request, with a message that at most one extractor matches and a
\* provider that names record_note.
InitAbort ==
    \E m \in {NoIntent} \cup OneIntent, row \in Rows :
        /\ initRequest(EnvNum(3), row, m, {"record_note"})
        /\ tables = SeededTables

NextAbort ==
    \E self \in Procs :
        \/ turn(self)
        \/ Abort(self)
        \/ ExecuteCancelled(self)
        \/ PostCancelled(self)

SpecAbort == InitAbort /\ [][NextAbort]_vars

(***************************************************************************)
(* C35: an abort stops the events and keeps the record of a running tool    *)
(***************************************************************************)
\* C35: once the client has aborted the transport, the turn puts no further
\* event on the stream; and a tool call that was executing when the client
\* aborted has, when the turn is over, run and is recorded in the stored
\* history of the session (a TOOL_CALL or TOOL_EXEC_ERROR entry of the
\* turn for that tool).
C35_AbortStopsEventsKeepsRecord ==
    \A p \in Procs :
        aborted(p) =>
            LET evs == events[p]
                k == CHOOSE i \in 1..Len(evs) : evs[i].event = "abort"
                toolRunning == k > 1 /\ evs[k - 1].event = "tool"
                over == pc[p] \in {"returned", "threw", "closed",
                                   "closed_error"}
            IN  /\ k = Len(evs)
                /\ (toolRunning /\ over) =>
                      /\ execs[p] # <<>>
                      /\ \E i \in 1..Len(db.history) :
                            /\ i > loaded[p].len
                            /\ db.history[i].kind \in
                                  {"TOOL_CALL", "TOOL_EXEC_ERROR"}
                            /\ db.history[i].name = evs[k - 1].name


(***************************************************************************)
(* C36: a turn emits at most one reply                                      *)
(***************************************************************************)
\* C36: among the events runAgent emits in a turn there is at most one
\* assistant_message and at most one assistant_done, an assistant_done is
\* the last of them, and no turn emits both an assistant_done and the
\* iteration-limit error.
C36_AtMostOneReply ==
    LET \* The events runAgent itself emitted: the route appends its own error
        \* event after runAgent threw.
        runAgentEvents(p) ==
            IF pc[p] = "closed_error"
            THEN SubSeq(events[p], 1, Len(events[p]) - 1)
            ELSE events[p]
    IN
    \A p \in Procs :
        LET evs == runAgentEvents(p)
            at(kind) == {k \in 1..Len(evs) : evs[k].event = kind}
        IN  /\ Cardinality(at("assistant_message")) <= 1
            /\ Cardinality(at("assistant_done")) <= 1
            /\ \A k \in at("assistant_done") : k = Len(evs)
            /\ at("assistant_done") # {} =>
                  \A k \in at("error") : evs[k] # EvError(LimitMessage)

\* C36 happens: a turn that called a tool from the LLM loop, got nothing
\* from it and went on has ended with one reply as its last event.
C36_Witness ==
    \E p \in Procs :
        /\ pc[p] = "closed"
        /\ iter[p] >= 1
        /\ execs[p] # <<>>
        /\ events[p] # <<>>
        /\ Last(events[p]).event = "assistant_done"


(***************************************************************************)
(* C37: one tool execution per turn unless an execution throws              *)
(***************************************************************************)
\* C37: among the tool executions of a turn every one but the last ended in
\* an exception: at most one execution returns a result (success or
\* structured failure) and it is the last execution of the turn.
C37_OneExecutionUnlessThrown ==
    \A p \in Procs :
        \A k \in 1..(Len(execs[p]) - 1) : execs[p][k].how = "threw"


(***************************************************************************)
(* C38: concurrent turns and the stored authenticated user                  *)
(***************************************************************************)
\* C38 (as stated): under any interleaving of two turns on one conversation
\* id the stored authenticated_user never goes from a user back to null.
C38_AuthNeverErased ==
    [][(db.exists /\ db.auth # 0) => db'.auth # 0]_vars

\* C38 (amended): the last save wins.  The stored authenticated_user changes
\* only by a save, every save stores the authenticated user of the saving
\* turn's own session, a stored user is set back to null only by a turn that
\* loaded the session without a user, and no turn sets the user of its own
\* session back to null.
C38_LastSaveWins ==
    [][
       /\ \A p \in Procs :
            /\ saves'[p] = saves[p] + 1 =>
                  /\ db'.auth = session[p].auth
                  /\ (db.auth # 0 /\ db'.auth = 0) => loaded[p].auth = 0
            /\ session[p].auth # 0 => session'[p].auth # 0
       /\ db'.auth # db.auth => \E p \in Procs : saves'[p] = saves[p] + 1
      ]_vars

\* C38 happens: with no failure anywhere, one turn has authenticated its
\* session and ended, the other has ended as well, and the stored
\* authenticated_user is null.
C38_Witness ==
    \E p, q \in Procs :
        /\ faults = 0
        /\ pc[p] = "closed" /\ pc[q] = "closed"
        /\ session[p].auth # 0
        /\ session[q].auth = 0
        /\ db.exists
        /\ db.auth = 0


(***************************************************************************)
(* Follow-ups: two sessions schedule and complete (tools.ts 379-416,        *)
(* 469-511), the tools called directly as in SpecRows                       *)
(***************************************************************************)
ScheduleFollowup(self) ==
    /\ mayCall(self)
    /\ callTool(self, "schedule_followup", Input(TRUE, 1))

NextFollowUps ==
    \E self \in Procs :
        \/ ScheduleFollowup(self)
        \/ CompleteFollowup(self)

SpecFollowUps == InitRows /\ [][NextFollowUps]_vars

(***************************************************************************)
(* C39: the status of a follow-up is monotonic                              *)
(***************************************************************************)
\* C39: whatever calls two sessions interleave, a follow-up that is created
\* has status pending, a completed follow-up stays as it is (no call sets
\* it back to pending or removes it), and complete_followup for a follow-up
\* of the caller, pending or already completed, reports success and leaves
\* it completed.
C39_FollowUpStatusMonotonic ==
    [][
       LET old == tables.follow_up
           new == tables'.follow_up
       IN  /\ \A r \in old : r.status = "completed" => r \in new
           /\ \A r \in old : \E r2 \in new :
                    r2.id = r.id /\ r2.user_id = r.user_id
           /\ \A r \in new :
                    (\A o \in old : o.id # r.id) => r.status = "pending"
           /\ \A p \in Procs :
                (/\ iter'[p] # iter[p]
                 /\ call'[p].name = "complete_followup"
                 /\ ~outcome'[p].null) =>
                    LET i == call'[p].input.arg
                        u == session[p].auth
                    IN  (\E r \in old : r.id = i /\ r.user_id = u) =>
                            /\ outcome'[p].result.success
                            /\ [id |-> i, user_id |-> u,
                                status |-> "completed"] \in new
      ]_vars

\* C39 happens: a follow-up that a session scheduled (id 3: the tables start
\* with two) has been completed by its owner.
C39_Witness ==
    \E p \in Procs :
        /\ iter[p] = 2
        /\ ~outcome[p].null
        /\ outcome[p].name = "complete_followup"
        /\ outcome[p].result.success
        /\ call[p].input.arg = 3
        /\ [id |-> 3, user_id |-> session[p].auth, status |-> "completed"]
              \in tables.follow_up


(***************************************************************************)
(* C40: the reply recorded is the reply streamed                            *)
(***************************************************************************)
\* C40: in every turn that has emitted assistant_done the last entry of the
\* session history is an assistant message whose content is the
\* concatenation of the token values streamed in the turn; it is appended
\* and saved after assistant_done: while the tokens are streamed the last
\* entry is not a reply, when assistant_done has just been emitted the
\* stored history does not have the reply yet, and when the turn has ended
\* without an exception the stored history ends with it.
C40_RecordedReplyIsStreamedReply ==
    \A p \in Procs :
        LET evs == events[p]
            hist == session[p].history
            done == \E k \in 1..Len(evs) : evs[k].event = "assistant_done"
        IN  /\ done =>
                  /\ hist # <<>>
                  /\ Last(hist).role = "assistant"
                  /\ Last(hist).kind = "TEXT"
                  /\ Join(Last(hist).data) = Join(tokenValues(evs))
            /\ pc[p] = "stream" =>
                  /\ ~done
                  /\ hist # <<>>
                  /\ Last(hist).kind # "TEXT"
            /\ (pc[p] = "save_reply" /\ db.history # <<>>) =>
                  /\ done
                  /\ Last(db.history) # Last(hist)
            /\ (done /\ pc[p] \in {"returned", "closed"}) =>
                  /\ db.exists
                  /\ db.history # <<>>
                  /\ Last(db.history) = Last(hist)

\* C40 happens: a reply of several tokens was streamed, recorded and saved,
\* and the turn has ended.
C40_Witness ==
    \E p \in Procs :
        /\ pc[p] = "closed"
        /\ Len(tokenValues(events[p])) >= 3
        /\ Last(events[p]).event = "assistant_done"
        /\ db.history # <<>>
        /\ Last(db.history).kind = "TEXT"
        /\ Join(Last(db.history).data) = Join(tokenValues(events[p]))

====
